---- MODULE Spec2Model ----
(***************************************************************************)
(* Model of the real-time pitch tracker of src/voice_5.py: the transport   *)
(* clock and its key commands, the capture thread, the playback thread,    *)
(* the display tick (update), the reference builder (process_audio_file)   *)
(* and the autocorrelation pitch detector (detect_pitch).                  *)
(*                                                                         *)
(* Units.  Time is counted in ticks of 0.1 s, so that every time constant  *)
(* of the program is an integer: 2 s = 20 ticks, 0.2 s = 2 ticks.  Audio   *)
(* samples are integers in units of 0.0025 of full scale, so that the RMS  *)
(* threshold 0.0075 is 3 units.  Notes are whole semitones.                *)
(***************************************************************************)
EXTENDS Integers, Sequences, FiniteSets, TLC

\* ------------------------------------------------------------------------
\* Program constants (src/voice_5.py), in the units above
\* ------------------------------------------------------------------------
PAST_DURATION == 50
FUTURE_DURATION == 100
VOLUME_THRESHOLD == 3
SEEK_STEP == 20
PRUNE_MARGIN == 10
MATCH_TOLERANCE == 2
UNMATCHED_ERROR == 3
PLAY_CHUNK == 1024
HOP_SIZE == 1024
SAMPLE_RATE == 44100
MIN_FREQ == 50
MAX_FREQ == 2000

\* ------------------------------------------------------------------------
\* Bounds of the model
\* ------------------------------------------------------------------------
\* the wall clock (time.time()) stops advancing at MaxWall ticks
MaxWall == 40
\* the wall clock advances WallStep ticks at a time
WallStep == 20
\* length of the backing track, in ticks
TrackTicks == 30
\* frames of the backing file per tick (its frame rate is 10 times this)
FramesPerTick == 128
\* pitch events alive at once (capture thread, channel and LiveBuffer)
MaxLive == 2

None == << >>
Some(v) == << v >>
Max(a, b) == IF a >= b THEN a ELSE b
Min(a, b) == IF a <= b THEN a ELSE b
Abs(a) == IF a >= 0 THEN a ELSE 0 - a

VARIABLES
    wall,                    \* time.time(), in ticks since the start gate
    is_playing,
    current_playback_time,
    last_resume_wall_time,
    seek_to,                 \* None or Some(position)
    audio_duration,
    input_latency,
    output_latency,
    audio_times,             \* the reference track
    audio_notes,
    data_queue,              \* sequence of [t, n, stale]
    times,                   \* LiveBuffer
    notes,
    times_stale,             \* history: which LiveBuffer entries were stamped before the last seek/stop
    cap_pc,                  \* audio_thread
    cap_hop,
    cap_note,
    cap_time,
    cap_stale,               \* history: cap_time was computed before the last seek/stop
    play_pc,                 \* play_audio
    wf_pos,
    wf_nframes,
    live_shown,              \* what update hands to live_scatter: [x, y, err]
    lock,                    \* the mutex: "free" or the thread that holds it
    gui_pc,                  \* the GUI thread: "idle" in the event loop, or inside a callback
    gui_key,                 \* event.key of the on_key call under way
    upd_now,                 \* current_time of the update call under way
    new_data,                \* new_data of the update call under way
    key_len,                 \* history: the length of the queue when on_key took the mutex
    key_gets,                \* history: the gets of the on_key call under way
    lastKey,                 \* history: the last key command handled
    ref_pc,                  \* process_audio_file
    ref_data,                \* data: mono samples
    ref_rate,                \* rate
    ref_i,                   \* i
    ref_start,               \* start_time, in samples (seconds = ref_start / rate)
    ref_times,               \* times, in samples
    ref_notes,
    ref_hops,                \* history: the 0-based hop index of each emitted event
    det_pc,                  \* a call of detect_pitch
    det_signal,
    det_rate,
    det_out,                 \* its return value, a frequency [num, den]
    det_scan,                \* the argmax over the lags, when it is taken lag by lag
    main_pc,                 \* the module-level script (the main thread)
    vocal_file,              \* what is at target_vocal: "absent" or the sample format
    audio_file,              \* what is at AUDIO_FILE
    generated_vocal,         \* what demucs leaves at separated/htdemucs/<stem>/vocals.wav
    demucs_runs,             \* calls of subprocess.run(['demucs', ...])
    VOCAL_PATH,
    load_result,             \* history: how the load in process_audio_file ended
    play_ready,
    input_ready,
    start_event,
    latency_writes           \* history: assignments to input_latency and output_latency

transport == <<is_playing, current_playback_time, last_resume_wall_time, seek_to>>
session == <<audio_duration, input_latency, output_latency, audio_times, audio_notes, wf_nframes>>
live == <<times, notes, times_stale>>
capture == <<cap_pc, cap_hop, cap_note, cap_time, cap_stale>>
playback == <<play_pc, wf_pos>>
gui == <<lock, gui_pc, gui_key, upd_now, new_data, key_len, key_gets>>
display == <<live_shown, gui>>
reference == <<ref_pc, ref_data, ref_rate, ref_i, ref_start, ref_times, ref_notes, ref_hops>>
detector == <<det_pc, det_signal, det_rate, det_out, det_scan>>
files == <<vocal_file, audio_file, generated_vocal>>
events == <<play_ready, input_ready, start_event>>
startup == <<main_pc, files, demucs_runs, VOCAL_PATH, load_result, events, latency_writes>>
offline == <<reference, detector, startup>>
vars == <<wall, transport, session, data_queue, live, capture, playback, display, lastKey, offline>>

\* the variables of the program: all but the history variables
program ==
    <<wall, transport, session, data_queue, times, notes, cap_pc, cap_hop, cap_note, cap_time,
      playback, display, offline>>

\* ------------------------------------------------------------------------
\* The transport clock
\* ------------------------------------------------------------------------
\* time.time() - last_resume_wall_time
SinceResume == wall - last_resume_wall_time

get_elapsed_playing_time_neg ==
    IF is_playing THEN current_playback_time - SinceResume ELSE current_playback_time

get_elapsed_playing_time ==
    IF is_playing THEN current_playback_time + SinceResume ELSE current_playback_time

\* the wall clock advances (it never goes back)
Tick ==
    /\ wall + WallStep <= MaxWall
    /\ wall' = wall + WallStep
    /\ UNCHANGED <<transport, session, data_queue, live, capture, playback, display, lastKey, offline>>

\* the event loop is between two callbacks and nobody holds the mutex
GuiIdle ==
    /\ lock = "free"
    /\ gui_pc = "idle"
    /\ gui_key = "none"
    /\ upd_now = 0
    /\ new_data = << >>
    /\ key_len = 0
    /\ key_gets = 0

\* ------------------------------------------------------------------------
\* on_key: every branch runs under the lock, on the GUI thread
\* ------------------------------------------------------------------------
\* the "Clear live data" block of the 's', 'left' and 'right' branches; a
\* timestamp the capture thread holds but has not enqueued is from now on
\* a pre-command timestamp
ClearLiveData_keepqueue ==
    /\ times' = << >>
    /\ notes' = << >>
    /\ times_stale' = << >>
    /\ data_queue' = data_queue
    /\ cap_stale' = (cap_pc = "put")

ClearLiveData ==
    /\ times' = << >>
    /\ notes' = << >>
    /\ times_stale' = << >>
    /\ data_queue' = << >>
    /\ cap_stale' = (cap_pc = "put")

\* current_playback_time += time.time() - last_resume_wall_time
FoldedTime_unfolded == current_playback_time

FoldedTime == current_playback_time + SinceResume

\* new_pos of the 'left' branch
RewindPos ==
    Max(0, (IF is_playing THEN current_playback_time + SinceResume ELSE current_playback_time) - SEEK_STEP)

\* new_pos of the 'right' branch
ForwardPos ==
    Min((IF is_playing THEN current_playback_time + SinceResume ELSE current_playback_time) + SEEK_STEP,
        audio_duration)

OnKeySpace_clearing ==
    /\ is_playing' = ~is_playing
    /\ current_playback_time' = IF is_playing THEN FoldedTime ELSE current_playback_time
    /\ last_resume_wall_time' = IF is_playing THEN last_resume_wall_time ELSE wall
    /\ ClearLiveData
    /\ lastKey' = "space"
    /\ UNCHANGED <<wall, seek_to, session, cap_pc, cap_hop, cap_note, cap_time,
                   playback, display, offline>>

\* the ' ' branch of on_key
OnKeySpace ==
    /\ IF is_playing
         THEN /\ current_playback_time' = FoldedTime
              /\ is_playing' = FALSE
              /\ UNCHANGED last_resume_wall_time
         ELSE /\ last_resume_wall_time' = wall
              /\ is_playing' = TRUE
              /\ UNCHANGED current_playback_time
    /\ lastKey' = "space"
    /\ UNCHANGED <<wall, seek_to, session, data_queue, live, capture, playback, display, offline>>

OnKeyStop ==
    /\ is_playing' = FALSE
    /\ seek_to' = Some(0)
    /\ current_playback_time' = 0
    /\ ClearLiveData
    /\ lastKey' = "s"
    /\ UNCHANGED <<wall, last_resume_wall_time, session, cap_pc, cap_hop, cap_note, cap_time,
                   playback, display, offline>>

OnKeyLeft ==
    /\ seek_to' = Some(RewindPos)
    /\ current_playback_time' = RewindPos
    /\ last_resume_wall_time' = IF is_playing THEN wall ELSE last_resume_wall_time
    /\ ClearLiveData
    /\ lastKey' = "left"
    /\ UNCHANGED <<wall, is_playing, session, cap_pc, cap_hop, cap_note, cap_time,
                   playback, display, offline>>

OnKeyRight ==
    /\ seek_to' = Some(ForwardPos)
    /\ current_playback_time' = ForwardPos
    /\ last_resume_wall_time' = IF is_playing THEN wall ELSE last_resume_wall_time
    /\ ClearLiveData
    /\ lastKey' = "right"
    /\ UNCHANGED <<wall, is_playing, session, cap_pc, cap_hop, cap_note, cap_time,
                   playback, display, offline>>

\* ------------------------------------------------------------------------
\* audio_thread: the capture loop
\* ------------------------------------------------------------------------
\* A hop read from the input stream, given by the two quantities the loop
\* computes from it: its RMS (in sample units) and what detect_pitch returns
\* for it at SAMPLE_RATE (Hz, 0 for 0.0).  An all-zero hop has RMS 0, and
\* detect_pitch returns SAMPLE_RATE / int(SAMPLE_RATE / 1000) = 1002 Hz for it:
\* the confidence test 0 < 0.1 * 0 is false.
NoHop == [rms |-> 0, freq |-> 0]
ZeroHop == [rms |-> 0, freq |-> 1002]
LiveHops ==
    { ZeroHop,
      [rms |-> 3, freq |-> 220],
      [rms |-> 400, freq |-> 0] }

\* 69 + 12 * log2(freq / 440) for the frequency num / den, to the octave:
\* exact when the frequency is 440 Hz times a power of two
RECURSIVE MidiNote(_, _)
MidiNote(num, den) ==
    IF num <= 0 THEN 0
    ELSE IF num >= 2 * 440 * den THEN 12 + MidiNote(num, 2 * den)
    ELSE IF num < 440 * den THEN MidiNote(2 * num, den) - 12
    ELSE 69

InVocalBand(freq) == MIN_FREQ <= freq /\ freq <= MAX_FREQ

\* rms < VOLUME_THRESHOLD
BelowThreshold_never(rms) == FALSE

BelowThreshold(rms) == rms < VOLUME_THRESHOLD

InLoop_restarted == cap_pc \in {"read", "stopped"}

\* while True: the thread is at the head of its loop; the break of the
\* except clause has left the loop for good
InLoop == cap_pc = "read"

\* audio_data = stream.read(HOP_SIZE, exception_on_overflow=False)
CapRead ==
    /\ InLoop
    /\ \E hop \in LiveHops : cap_hop' = hop
    /\ cap_pc' = "check"
    /\ UNCHANGED <<wall, transport, session, data_queue, live, cap_note, cap_time, cap_stale,
                   playback, display, lastKey, offline>>

\* stream.read raises: the except clause prints and leaves the loop
CapError ==
    /\ cap_pc = "read"
    /\ cap_pc' = "stopped"
    /\ UNCHANGED <<wall, transport, session, data_queue, live, cap_hop, cap_note, cap_time,
                   cap_stale, playback, display, lastKey, offline>>

ModeSeenPlaying_always == TRUE

\* is_playing as read inside the with block
ModeSeenPlaying == is_playing

\* with lock: if not is_playing: continue
CapCheckPlaying ==
    /\ cap_pc = "check"
    /\ IF ModeSeenPlaying
         THEN cap_pc' = "gate" /\ UNCHANGED cap_hop
         ELSE cap_pc' = "read" /\ cap_hop' = NoHop
    /\ UNCHANGED <<wall, transport, session, data_queue, live, cap_note, cap_time, cap_stale,
                   playback, display, lastKey, offline>>

\* rms = sqrt(mean(samples**2)); if rms < VOLUME_THRESHOLD: continue
CapGate ==
    /\ cap_pc = "gate"
    /\ IF BelowThreshold(cap_hop.rms)
         THEN cap_pc' = "read" /\ cap_hop' = NoHop
         ELSE cap_pc' = "detect" /\ UNCHANGED cap_hop
    /\ UNCHANGED <<wall, transport, session, data_queue, live, cap_note, cap_time, cap_stale,
                   playback, display, lastKey, offline>>

\* freq = detect_pitch(samples, SAMPLE_RATE); if 50 <= freq <= 2000: midi_note = ...
CapDetect ==
    /\ cap_pc = "detect"
    /\ IF InVocalBand(cap_hop.freq)
         THEN /\ cap_pc' = "stamp"
              /\ cap_note' = MidiNote(cap_hop.freq, 1)
              /\ UNCHANGED cap_hop
         ELSE /\ cap_pc' = "read"
              /\ cap_hop' = NoHop
              /\ UNCHANGED cap_note
    /\ UNCHANGED <<wall, transport, session, data_queue, live, cap_time, cap_stale,
                   playback, display, lastKey, offline>>

\* current_time = get_elapsed_playing_time() - input_latency
CapStamp ==
    /\ cap_pc = "stamp"
    /\ cap_time' = get_elapsed_playing_time - input_latency
    /\ cap_stale' = FALSE
    /\ cap_pc' = "put"
    /\ UNCHANGED <<wall, transport, session, data_queue, live, cap_hop, cap_note,
                   playback, display, lastKey, offline>>

\* data_queue.put((current_time, midi_note)); the guard bounds the model
CapPut ==
    /\ cap_pc = "put"
    /\ Len(data_queue) + Len(times) < MaxLive
    /\ data_queue' = Append(data_queue, [t |-> cap_time, n |-> cap_note, stale |-> cap_stale])
    /\ cap_pc' = "read"
    /\ cap_hop' = NoHop
    /\ cap_note' = 0
    /\ cap_time' = 0
    /\ cap_stale' = FALSE
    /\ UNCHANGED <<wall, transport, session, live, playback, display, lastKey, offline>>

\* ------------------------------------------------------------------------
\* play_audio: the playback loop
\* ------------------------------------------------------------------------
\* frame_pos = int(seek_to * wf.getframerate())
FramePos(pos) == pos * FramesPerTick

\* with lock: if seek_to is not None: wf.setpos(frame_pos); seek_to = None
\* wave's setpos raises Error for a position outside 0..nframes: the
\* exception leaves the with block and ends the thread, seek_to still set
SeekAfterApply_kept == seek_to

\* seek_to = None, in the critical section of wf.setpos
SeekAfterApply == None

PlaySeek ==
    /\ play_pc = "seek"
    /\ IF seek_to = None
         THEN play_pc' = "mode" /\ UNCHANGED <<wf_pos, seek_to>>
         ELSE IF FramePos(seek_to[1]) < 0 \/ FramePos(seek_to[1]) > wf_nframes
                THEN play_pc' = "crashed" /\ UNCHANGED <<wf_pos, seek_to>>
                ELSE /\ wf_pos' = FramePos(seek_to[1])
                     /\ seek_to' = SeekAfterApply
                     /\ play_pc' = "mode"
    /\ UNCHANGED <<wall, is_playing, current_playback_time, last_resume_wall_time, session,
                   data_queue, live, capture, display, lastKey, offline>>

\* if not is_playing: (read outside the lock)
PlayMode ==
    /\ play_pc = "mode"
    /\ play_pc' = IF is_playing THEN "read" ELSE "silence"
    /\ UNCHANGED <<wall, transport, session, data_queue, live, capture, wf_pos, display, lastKey, offline>>

\* stream.write(silence); continue
PlaySilence ==
    /\ play_pc = "silence"
    /\ play_pc' = "seek"
    /\ UNCHANGED <<wall, transport, session, data_queue, live, capture, wf_pos, display, lastKey, offline>>

AfterEndOfStream_loop == "seek"

\* if not data: break
AfterEndOfStream == "done"

\* data = wf.readframes(chunk); if not data: break; stream.write(data)
PlayChunk ==
    /\ play_pc = "read"
    /\ IF wf_pos >= wf_nframes
         THEN play_pc' = AfterEndOfStream /\ UNCHANGED wf_pos
         ELSE play_pc' = "seek" /\ wf_pos' = Min(wf_pos + PLAY_CHUNK, wf_nframes)
    /\ UNCHANGED <<wall, transport, session, data_queue, live, capture, display, lastKey, offline>>

\* ------------------------------------------------------------------------
\* update: the display tick, on the GUI thread
\* ------------------------------------------------------------------------
\* rel_x = audio_times_np - current_time + output_latency, with its note
RefPoints(now) ==
    [i \in 1..Len(audio_times) |->
        [x |-> audio_times[i] - now + output_latency, y |-> audio_notes[i]]]

\* mask = (rel_x >= -PAST_DURATION) & (rel_x <= FUTURE_DURATION)
InRefWindow(p) == p.x >= 0 - PAST_DURATION /\ p.x <= FUTURE_DURATION

\* bg_x, bg_y
BgPoints(now) == SelectSeq(RefPoints(now), InRefWindow)

\* rel_live_x = times_np - current_time, with its note
LivePoints(ts, ns, now) == [i \in 1..Len(ts) |-> [x |-> ts[i] - now, y |-> ns[i]]]

\* live_mask = (rel_live_x >= -PAST_DURATION) & (rel_live_x <= 0)
InLiveWindow(p) == p.x >= 0 - PAST_DURATION /\ p.x <= 0

\* past_mask = bg_x <= 0
IsPast(p) == p.x <= 0

\* np.argmin(np.abs(bg_x_past - lx)): the first index of the least distance
RECURSIVE ArgMinFrom(_, _, _, _)
ArgMinFrom(bgp, lx, i, best) ==
    IF i > Len(bgp) THEN best
    ELSE IF Abs(bgp[i].x - lx) < Abs(bgp[best].x - lx)
           THEN ArgMinFrom(bgp, lx, i + 1, i)
           ELSE ArgMinFrom(bgp, lx, i + 1, best)

ArgMin(bgp, lx) == ArgMinFrom(bgp, lx, 2, 1)

\* dt < 0.2
WithinTolerance(dt) == dt < MATCH_TOLERANCE

\* errors[i]: 3.0 unless a past reference point is within the tolerance
LiveError(p, bg) ==
    LET bgp == SelectSeq(bg, IsPast)
    IN  IF Len(bg) > 0 /\ Len(bgp) > 0
          THEN LET idx == ArgMin(bgp, p.x)
                   dt == Abs(bgp[idx].x - p.x)
               IN  IF WithinTolerance(dt) THEN Abs(p.y - bgp[idx].y) ELSE UNMATCHED_ERROR
          ELSE UNMATCHED_ERROR

\* live_x, live_y and errors, as handed to live_scatter
LiveShown(ts, ns, now) ==
    LET pts == SelectSeq(LivePoints(ts, ns, now), InLiveWindow)
        bg == BgPoints(now)
    IN  [i \in 1..Len(pts) |-> [x |-> pts[i].x, y |-> pts[i].y, err |-> LiveError(pts[i], bg)]]

\* while times and times[0] < current_time - PAST_DURATION - 1: pop(0)
RECURSIVE PruneCount(_, _)
PruneCount(ts, now) ==
    IF ts # << >> /\ ts[1] < now - PAST_DURATION - PRUNE_MARGIN
      THEN 1 + PruneCount(Tail(ts), now)
      ELSE 0

Pruned(s, k) == SubSeq(s, k + 1, Len(s))

\* update, one call: read the clock, drain the queue, prune, score and set
\* live_scatter.  on_key and update are callbacks of the one GUI thread, so
\* neither runs inside the other; a put of the capture thread that falls
\* inside a callback is a put just before or just after it.
\* background_scatter gets BgPoints(current_time), a function of the clock
\* alone, and is not kept as state.  With an empty reference track bg_x is
\* never bound, and the call raises at len(bg_x) once there is a live point:
\* live_scatter keeps what it had.
Update ==
    /\ LET current_time == get_elapsed_playing_time
           ts == times \o [i \in 1..Len(data_queue) |-> data_queue[i].t]
           ns == notes \o [i \in 1..Len(data_queue) |-> data_queue[i].n]
           ss == times_stale \o [i \in 1..Len(data_queue) |-> data_queue[i].stale]
           k == PruneCount(ts, current_time)
       IN  /\ times' = Pruned(ts, k)
           /\ notes' = Pruned(ns, k)
           /\ times_stale' = Pruned(ss, k)
           /\ live_shown' =
                IF Pruned(ts, k) = << >> THEN << >>
                ELSE IF audio_times = << >> THEN live_shown
                ELSE LiveShown(Pruned(ts, k), Pruned(ns, k), current_time)
    /\ data_queue' = << >>
    /\ UNCHANGED <<wall, transport, session, capture, playback, gui, lastKey, offline>>

\* ------------------------------------------------------------------------
\* The GUI thread statement by statement: on_key and update as the event
\* loop runs them, one callback at a time, with the mutex held by on_key
\* for the whole of its body and by get_elapsed_playing_time for its read
\* ------------------------------------------------------------------------
KeyNames == {"space", "s", "left", "right"}

LockFree_ignored == TRUE

\* `with lock:` can be entered
LockFree == lock = "free"

QueueEmptySeen_never == FALSE

\* data_queue.empty()
QueueEmptySeen == data_queue = << >>

\* the event loop dispatches a key press: on_key is entered
KeyPress ==
    /\ gui_pc = "idle"
    /\ \E k \in KeyNames : gui_key' = k
    /\ gui_pc' = "key_lock"
    /\ UNCHANGED <<wall, transport, session, data_queue, live, capture, playback, live_shown,
                   lock, upd_now, new_data, key_len, key_gets, lastKey, offline>>

\* with lock:
KeyAcquire ==
    /\ gui_pc = "key_lock"
    /\ LockFree
    /\ lock' = "gui"
    /\ key_len' = Len(data_queue)
    /\ key_gets' = 0
    /\ gui_pc' = "key_body"
    /\ UNCHANGED <<wall, transport, session, data_queue, live, capture, playback, live_shown,
                   gui_key, upd_now, new_data, lastKey, offline>>

\* the assignments of the branch of event.key
KeyTransport(key) ==
    IF key = "space"
      THEN IF is_playing
             THEN /\ current_playback_time' = FoldedTime
                  /\ is_playing' = FALSE
                  /\ UNCHANGED <<last_resume_wall_time, seek_to>>
             ELSE /\ last_resume_wall_time' = wall
                  /\ is_playing' = TRUE
                  /\ UNCHANGED <<current_playback_time, seek_to>>
    ELSE IF key = "s"
      THEN /\ is_playing' = FALSE
           /\ seek_to' = Some(0)
           /\ current_playback_time' = 0
           /\ UNCHANGED last_resume_wall_time
    ELSE IF key = "left"
      THEN /\ seek_to' = Some(RewindPos)
           /\ current_playback_time' = RewindPos
           /\ last_resume_wall_time' = IF is_playing THEN wall ELSE last_resume_wall_time
           /\ UNCHANGED is_playing
      ELSE /\ seek_to' = Some(ForwardPos)
           /\ current_playback_time' = ForwardPos
           /\ last_resume_wall_time' = IF is_playing THEN wall ELSE last_resume_wall_time
           /\ UNCHANGED is_playing

\* the branch up to its drain loop: the transport assignments, then
\* times.clear(); notes.clear() in the 's', 'left' and 'right' branches
KeyBody ==
    /\ gui_pc = "key_body"
    /\ KeyTransport(gui_key)
    /\ lastKey' = gui_key
    /\ IF gui_key = "space"
         THEN /\ gui_pc' = "key_release"
              /\ UNCHANGED <<times, notes, times_stale, cap_stale>>
         ELSE /\ gui_pc' = "key_empty"
              /\ times' = << >>
              /\ notes' = << >>
              /\ times_stale' = << >>
              /\ cap_stale' = (cap_pc = "put")
    /\ UNCHANGED <<wall, session, data_queue, cap_pc, cap_hop, cap_note, cap_time, playback,
                   live_shown, lock, gui_key, upd_now, new_data, key_len, key_gets, offline>>

\* while not data_queue.empty():
KeyEmpty ==
    /\ gui_pc = "key_empty"
    /\ gui_pc' = IF QueueEmptySeen THEN "key_release" ELSE "key_get"
    /\ UNCHANGED <<wall, transport, session, data_queue, live, capture, playback, live_shown,
                   lock, gui_key, upd_now, new_data, key_len, key_gets, lastKey, offline>>

\* data_queue.get(): the call returns when there is an item
KeyGet ==
    /\ gui_pc = "key_get"
    /\ data_queue # << >>
    /\ data_queue' = Tail(data_queue)
    /\ key_gets' = key_gets + 1
    /\ gui_pc' = "key_empty"
    /\ UNCHANGED <<wall, transport, session, live, capture, playback, live_shown,
                   lock, gui_key, upd_now, new_data, key_len, lastKey, offline>>

\* the end of the with block: on_key returns
KeyRelease ==
    /\ gui_pc = "key_release"
    /\ lock' = "free"
    /\ gui_key' = "none"
    /\ gui_pc' = "idle"
    /\ UNCHANGED <<wall, transport, session, data_queue, live, capture, playback, live_shown,
                   upd_now, new_data, key_len, key_gets, lastKey, offline>>

\* the animation timer fires: current_time = get_elapsed_playing_time();
\* new_data = []
UpdClock ==
    /\ gui_pc = "idle"
    /\ LockFree
    /\ upd_now' = get_elapsed_playing_time
    /\ new_data' = << >>
    /\ gui_pc' = "upd_empty"
    /\ UNCHANGED <<wall, transport, session, data_queue, live, capture, playback, live_shown,
                   lock, gui_key, key_len, key_gets, lastKey, offline>>

\* while not data_queue.empty():
UpdEmpty ==
    /\ gui_pc = "upd_empty"
    /\ gui_pc' = IF QueueEmptySeen THEN "upd_append" ELSE "upd_get"
    /\ UNCHANGED <<wall, transport, session, data_queue, live, capture, playback, live_shown,
                   lock, gui_key, upd_now, new_data, key_len, key_gets, lastKey, offline>>

\* new_data.append(data_queue.get())
UpdGet ==
    /\ gui_pc = "upd_get"
    /\ data_queue # << >>
    /\ new_data' = Append(new_data, Head(data_queue))
    /\ data_queue' = Tail(data_queue)
    /\ gui_pc' = "upd_empty"
    /\ UNCHANGED <<wall, transport, session, live, capture, playback, live_shown,
                   lock, gui_key, upd_now, key_len, key_gets, lastKey, offline>>

\* for t, midi_n in new_data: times.append(t); notes.append(midi_n)
UpdAppend ==
    /\ gui_pc = "upd_append"
    /\ times' = times \o [i \in 1..Len(new_data) |-> new_data[i].t]
    /\ notes' = notes \o [i \in 1..Len(new_data) |-> new_data[i].n]
    /\ times_stale' = times_stale \o [i \in 1..Len(new_data) |-> new_data[i].stale]
    /\ new_data' = << >>
    /\ gui_pc' = "upd_show"
    /\ UNCHANGED <<wall, transport, session, data_queue, capture, playback, live_shown,
                   lock, gui_key, upd_now, key_len, key_gets, lastKey, offline>>

\* the pruning loop and the two scatters, with the clock value read at the
\* top of the call
UpdShow ==
    /\ gui_pc = "upd_show"
    /\ LET k == PruneCount(times, upd_now)
       IN  /\ times' = Pruned(times, k)
           /\ notes' = Pruned(notes, k)
           /\ times_stale' = Pruned(times_stale, k)
           /\ live_shown' =
                IF Pruned(times, k) = << >> THEN << >>
                ELSE IF audio_times = << >> THEN live_shown
                ELSE LiveShown(Pruned(times, k), Pruned(notes, k), upd_now)
    /\ gui_pc' = "idle"
    /\ UNCHANGED <<wall, transport, session, data_queue, capture, playback,
                   lock, gui_key, upd_now, new_data, key_len, key_gets, lastKey, offline>>

\* on_key
KeyCommand == KeyPress \/ KeyAcquire \/ KeyBody \/ KeyEmpty \/ KeyGet \/ KeyRelease

\* update
UpdateCall == UpdClock \/ UpdEmpty \/ UpdGet \/ UpdAppend \/ UpdShow

\* ------------------------------------------------------------------------
\* detect_pitch: autocorrelation pitch detection
\* ------------------------------------------------------------------------
RECURSIVE SumSeq(_)
SumSeq(q) == IF q = << >> THEN 0 ELSE Head(q) + SumSeq(Tail(q))

\* signal - np.mean(signal), times len(signal) to stay in the integers: every
\* correlation is scaled by the same len(signal)^2, which changes neither the
\* argmax nor the comparison with 0.1 * corr[0]
Centered(signal) == [i \in 1..Len(signal) |-> Len(signal) * signal[i] - SumSeq(signal)]

\* corr[lag] of np.correlate(signal, signal, mode='full')[len(corr)//2:]
RECURSIVE CorrFrom(_, _, _)
CorrFrom(c, lag, i) ==
    IF i + lag > Len(c) THEN 0 ELSE c[i] * c[i + lag] + CorrFrom(c, lag, i + 1)

Corr(c, lag) == CorrFrom(c, lag, 1)

\* min_lag and max_lag after the bounds checks; len(corr) = len(signal)
MinLag(sample_rate) == Max(1, sample_rate \div 1000)

MaxLag(n, sample_rate) ==
    IF sample_rate \div 50 > n THEN n - 1 ELSE sample_rate \div 50

\* np.argmax(corr[min_lag:max_lag]) + min_lag: the first lag of the highest
\* correlation among min_lag .. max_lag - 1
RECURSIVE PeakFrom(_, _, _, _)
PeakFrom(c, lag, max_lag, best) ==
    IF lag >= max_lag THEN best
    ELSE IF Corr(c, lag) > Corr(c, best)
           THEN PeakFrom(c, lag + 1, max_lag, lag)
           ELSE PeakFrom(c, lag + 1, max_lag, best)

PeakIndex(c, min_lag, max_lag) == PeakFrom(c, min_lag + 1, max_lag, min_lag)

\* a frequency is the exact quotient num / den; 0.0 is 0 / 1
Unvoiced == [num |-> 0, den |-> 1]

\* no argmax is under way
NoScan == [lag |-> 0, sum |-> 0, peak |-> 0, peak_corr |-> 0, zero_corr |-> 0]

\* corr[peak_index] < 0.1 * corr[0]
LowConfidence(peak, zero) == 10 * peak < zero

detect_pitch(signal, sample_rate) ==
    LET c == Centered(signal)
        min_lag == MinLag(sample_rate)
        max_lag == MaxLag(Len(signal), sample_rate)
    IN  IF min_lag >= max_lag THEN Unvoiced
        ELSE LET peak_index == PeakIndex(c, min_lag, max_lag)
             IN  IF LowConfidence(Corr(c, peak_index), Corr(c, 0)) THEN Unvoiced
                 ELSE [num |-> sample_rate, den |-> peak_index]

\* 50 <= freq <= 2000
InBand(f) == MIN_FREQ * f.den <= f.num /\ f.num <= MAX_FREQ * f.den

\* one call of detect_pitch on a chunk
Detect ==
    /\ det_pc = "call"
    /\ det_out' = detect_pitch(det_signal, det_rate)
    /\ det_pc' = "returned"
    /\ UNCHANGED <<wall, transport, session, data_queue, live, capture, playback, display,
                   lastKey, reference, det_signal, det_rate, det_scan, startup>>

\* ------------------------------------------------------------------------
\* detect_pitch on a whole hop of HOP_SIZE samples.  The computation is the
\* one of detect_pitch above, arranged so that every intermediate value fits
\* a 32-bit integer: with n the length and S the sum of the hop,
\*     n * n * corr[lag] = n * CorrMajor(lag) + (n - lag) * S * S
\* where corr is the autocorrelation of signal - mean(signal); corr values
\* are compared through this identity and never formed.  np.argmax is taken
\* one lag per step.
\* ------------------------------------------------------------------------
RECURSIVE SumRange(_, _, _)
SumRange(x, a, b) ==
    IF a > b THEN 0
    ELSE IF a = b THEN x[a]
    ELSE LET m == (a + b) \div 2 IN SumRange(x, a, m) + SumRange(x, m + 1, b)

\* sum of x[i] * x[i + lag] for i in a .. b
RECURSIVE LagProducts(_, _, _, _)
LagProducts(x, lag, a, b) ==
    IF a > b THEN 0
    ELSE IF a = b THEN x[a] * x[a + lag]
    ELSE LET m == (a + b) \div 2 IN LagProducts(x, lag, a, m) + LagProducts(x, lag, m + 1, b)

CorrMajor(x, S, lag) ==
    Len(x) * LagProducts(x, lag, 1, Len(x) - lag)
      - S * (SumRange(x, 1, Len(x) - lag) + SumRange(x, lag + 1, Len(x)))

\* c * s2 / n rounded down, and rounded up
ScaledFloor(c, s2, n) == c * (s2 \div n) + ((c * (s2 % n)) \div n)
ScaledCeil(c, s2, n) == ScaledFloor(c, s2, n) + (IF (c * (s2 % n)) % n = 0 THEN 0 ELSE 1)

\* corr[a] > corr[b], given CorrMajor of both
CorrGreater(major_a, a, major_b, b, S, n) ==
    major_a - major_b > ScaledFloor(a - b, S * S, n)

\* corr[peak_index] < 0.1 * corr[0], given CorrMajor of both
HopLowConfidence(major_peak, peak, major_zero, S, n) ==
    major_peak <= (major_zero + ScaledCeil(10 * peak - 9 * n, S * S, n) - 1) \div 10

\* the call, up to the first candidate of the argmax
HopEnter ==
    /\ det_pc = "enter"
    /\ LET n == Len(det_signal)
           S == SumRange(det_signal, 1, n)
           min_lag == MinLag(det_rate)
           max_lag == MaxLag(n, det_rate)
       IN  IF min_lag >= max_lag
             THEN /\ det_out' = Unvoiced
                  /\ det_pc' = "returned"
                  /\ det_scan' = NoScan
             ELSE /\ det_scan' = [lag |-> min_lag, sum |-> S, peak |-> min_lag,
                                  peak_corr |-> CorrMajor(det_signal, S, min_lag),
                                  zero_corr |-> CorrMajor(det_signal, S, 0)]
                  /\ det_pc' = "argmax"
                  /\ det_out' = det_out
    /\ UNCHANGED <<wall, transport, session, data_queue, live, capture, playback, display,
                   lastKey, reference, det_signal, det_rate, startup>>

\* np.argmax, the next lag: the first of the highest values is kept
HopScan ==
    /\ det_pc = "argmax"
    /\ det_scan.lag + 1 < MaxLag(Len(det_signal), det_rate)
    /\ LET lag == det_scan.lag + 1
           major == CorrMajor(det_signal, det_scan.sum, lag)
       IN  det_scan' =
             IF CorrGreater(major, lag, det_scan.peak_corr, det_scan.peak, det_scan.sum,
                            Len(det_signal))
               THEN [det_scan EXCEPT !.lag = lag, !.peak = lag, !.peak_corr = major]
               ELSE [det_scan EXCEPT !.lag = lag]
    /\ UNCHANGED <<wall, transport, session, data_queue, live, capture, playback, display,
                   lastKey, reference, det_pc, det_signal, det_rate, det_out, startup>>

\* the confidence test and the return value
HopReturn ==
    /\ det_pc = "argmax"
    /\ det_scan.lag + 1 >= MaxLag(Len(det_signal), det_rate)
    /\ det_out' =
         IF HopLowConfidence(det_scan.peak_corr, det_scan.peak, det_scan.zero_corr,
                             det_scan.sum, Len(det_signal))
           THEN Unvoiced
           ELSE [num |-> det_rate, den |-> det_scan.peak]
    /\ det_pc' = "returned"
    /\ UNCHANGED <<wall, transport, session, data_queue, live, capture, playback, display,
                   lastKey, reference, det_signal, det_rate, det_scan, startup>>

\* ------------------------------------------------------------------------
\* process_audio_file: the reference builder
\* ------------------------------------------------------------------------
\* file_hop_size = int(hop_size / SAMPLE_RATE * rate), at least 1
FileHopSize(rate) == Max(1, (HOP_SIZE * rate) \div SAMPLE_RATE)

\* chunk = data[i:i+file_hop_size]
Chunk(data, i, h) == SubSeq(data, i + 1, i + h)

RECURSIVE SumSquares(_)
SumSquares(q) == IF q = << >> THEN 0 ELSE Head(q) * Head(q) + SumSquares(Tail(q))

\* np.sqrt(np.mean(chunk**2)) < threshold, squared on both sides
ChunkBelowThreshold(chunk) ==
    SumSquares(chunk) < VOLUME_THRESHOLD * VOLUME_THRESHOLD * Len(chunk)

\* range(0, len(data) - file_hop_size, file_hop_size) has the index i
InRange(i, n, h) == i < n - h

\* start_time += file_hop_size / rate on the gated-out branch
GatedAdvance_none(h) == 0

GatedAdvance(h) == h

\* the loop head, and the energy gate of one hop
RefGate ==
    /\ ref_pc = "gate"
    /\ InRange(ref_i, Len(ref_data), FileHopSize(ref_rate))
    /\ IF ChunkBelowThreshold(Chunk(ref_data, ref_i, FileHopSize(ref_rate)))
         THEN /\ ref_start' = ref_start + GatedAdvance(FileHopSize(ref_rate))
              /\ ref_i' = ref_i + FileHopSize(ref_rate)
              /\ ref_pc' = "gate"
         ELSE /\ ref_pc' = "detect"
              /\ UNCHANGED <<ref_start, ref_i>>
    /\ UNCHANGED <<wall, transport, session, data_queue, live, capture, playback, display,
                   lastKey, ref_data, ref_rate, ref_times, ref_notes, ref_hops, detector, startup>>

\* freq = detect_pitch(chunk, rate), the event if it is in the band, and
\* the end of the iteration
RefDetect ==
    /\ ref_pc = "detect"
    /\ LET h == FileHopSize(ref_rate)
           freq == detect_pitch(Chunk(ref_data, ref_i, h), ref_rate)
       IN  /\ IF InBand(freq)
                THEN /\ ref_times' = Append(ref_times, ref_start)
                     /\ ref_notes' = Append(ref_notes, MidiNote(freq.num, freq.den))
                     /\ ref_hops' = Append(ref_hops, ref_i \div h)
                ELSE UNCHANGED <<ref_times, ref_notes, ref_hops>>
           /\ ref_start' = ref_start + h
           /\ ref_i' = ref_i + h
    /\ ref_pc' = "gate"
    /\ UNCHANGED <<wall, transport, session, data_queue, live, capture, playback, display,
                   lastKey, ref_data, ref_rate, detector, startup>>

\* return times, notes: the range is exhausted
RefReturn ==
    /\ ref_pc = "gate"
    /\ ~InRange(ref_i, Len(ref_data), FileHopSize(ref_rate))
    /\ ref_pc' = "done"
    /\ UNCHANGED <<wall, transport, session, data_queue, live, capture, playback, display,
                   lastKey, ref_data, ref_rate, ref_i, ref_start, ref_times, ref_notes,
                   ref_hops, detector, startup>>

\* ------------------------------------------------------------------------
\* The module-level script: vocal isolation, the reference track, the start
\* of the two threads and the start gate
\* ------------------------------------------------------------------------
\* stream.get_input_latency(), stream.get_output_latency()
InputLatencies == {1}
OutputLatencies == {3}

\* a reference track as process_audio_file returns it
SessionTrack == [t |-> <<0, 10, 20>>, n |-> <<57, 57, 69>>]

ISOLATE_VOCALS == TRUE

\* sample formats scipy.io.wavfile.read gives a dtype for
SampleFormats == {"int16", "int32", "float32", "uint8", "float64"}

\* data.dtype is np.int16, np.int32 or np.float32
SupportedFormats == {"int16", "int32", "float32"}

\* wavfile.read raises: there is no file, or it is no WAV file
Unreadable(file) == file \in {"absent", "corrupt"}

\* the file process_audio_file is handed
FileAt(path) == IF path = "vocals" THEN vocal_file ELSE audio_file

\* if ISOLATE_VOCALS: if target_vocal.exists(): ... VOCAL_PATH = target_vocal
MainIsolate ==
    /\ main_pc = "isolate"
    /\ IF ~ISOLATE_VOCALS
         THEN VOCAL_PATH' = "original" /\ main_pc' = "load"
         ELSE IF vocal_file # "absent"
                THEN VOCAL_PATH' = "vocals" /\ main_pc' = "load"
                ELSE VOCAL_PATH' = VOCAL_PATH /\ main_pc' = "demucs"
    /\ UNCHANGED <<wall, transport, session, data_queue, live, capture, playback, display,
                   lastKey, reference, detector, files, demucs_runs, load_result, events,
                   latency_writes>>

\* subprocess.run(['demucs', '--two-stems=vocals', str(AUDIO_PATH)])
MainDemucs ==
    /\ main_pc = "demucs"
    /\ demucs_runs' = demucs_runs + 1
    /\ main_pc' = "generated"
    /\ UNCHANGED <<wall, transport, session, data_queue, live, capture, playback, display,
                   lastKey, reference, detector, files, VOCAL_PATH, load_result, events,
                   latency_writes>>

\* if generated_vocal.exists(): rename it to target_vocal; else: fall back
\* to AUDIO_PATH
MainGenerated ==
    /\ main_pc = "generated"
    /\ IF generated_vocal # "absent"
         THEN /\ vocal_file' = generated_vocal
              /\ generated_vocal' = "absent"
              /\ VOCAL_PATH' = "vocals"
         ELSE /\ VOCAL_PATH' = "original"
              /\ UNCHANGED <<vocal_file, generated_vocal>>
    /\ main_pc' = "load"
    /\ UNCHANGED <<wall, transport, session, data_queue, live, capture, playback, display,
                   lastKey, reference, detector, audio_file, demucs_runs, load_result, events,
                   latency_writes>>

\* how rate, data = wavfile.read(filename) and the dtype test end
LoadResult(file) ==
    IF Unreadable(file) THEN "read_error"
    ELSE IF file \in SupportedFormats THEN "ok"
    ELSE "unsupported"

\* audio_times, audio_notes = process_audio_file(str(VOCAL_PATH), ...): both
\* failures print and return [], []; the hop loop of a file that loads
\* gives the reference track of the session
MainLoad ==
    /\ main_pc = "load"
    /\ load_result' = LoadResult(FileAt(VOCAL_PATH))
    /\ IF LoadResult(FileAt(VOCAL_PATH)) = "ok"
         THEN audio_times' = SessionTrack.t /\ audio_notes' = SessionTrack.n
         ELSE audio_times' = << >> /\ audio_notes' = << >>
    /\ main_pc' = "duration"
    /\ UNCHANGED <<wall, transport, audio_duration, input_latency, output_latency, wf_nframes,
                   data_queue, live, capture, playback, display, lastKey, reference, detector,
                   files, demucs_runs, VOCAL_PATH, events, latency_writes>>

\* wave.open reads PCM files only, and raises for the others
WaveOpens(file) == file \in {"int16", "int32", "uint8"}

\* with wave.open(AUDIO_FILE, 'rb') as wf_temp: audio_duration = ...; an
\* exception here ends the script
MainDuration ==
    /\ main_pc = "duration"
    /\ IF WaveOpens(audio_file)
         THEN audio_duration' = TrackTicks /\ main_pc' = "start_play"
         ELSE audio_duration' = audio_duration /\ main_pc' = "died"
    /\ UNCHANGED <<wall, transport, input_latency, output_latency, audio_times, audio_notes,
                   wf_nframes, data_queue, live, capture, playback, display, lastKey, reference,
                   detector, files, demucs_runs, VOCAL_PATH, load_result, events, latency_writes>>

\* play_thread.start()
MainStartPlay ==
    /\ main_pc = "start_play"
    /\ play_pc' = "open"
    /\ main_pc' = "start_input"
    /\ UNCHANGED <<wall, transport, session, data_queue, live, capture, wf_pos, display,
                   lastKey, reference, detector, files, demucs_runs, VOCAL_PATH, load_result,
                   events, latency_writes>>

\* input_thread.start()
MainStartInput ==
    /\ main_pc = "start_input"
    /\ cap_pc' = "open"
    /\ main_pc' = "wait_play"
    /\ UNCHANGED <<wall, transport, session, data_queue, live, cap_hop, cap_note, cap_time,
                   cap_stale, playback, display, lastKey, reference, detector, files,
                   demucs_runs, VOCAL_PATH, load_result, events, latency_writes>>

\* play_ready.wait() has returned
PlayReadyObserved == play_ready

\* input_ready.wait() has returned
InputReadyObserved_unwaited == TRUE

InputReadyObserved == input_ready

MainWaitPlay ==
    /\ main_pc = "wait_play"
    /\ PlayReadyObserved
    /\ main_pc' = "wait_input"
    /\ UNCHANGED <<wall, transport, session, data_queue, live, capture, playback, display,
                   lastKey, reference, detector, files, demucs_runs, VOCAL_PATH, load_result,
                   events, latency_writes>>

MainWaitInput ==
    /\ main_pc = "wait_input"
    /\ InputReadyObserved
    /\ main_pc' = "resume"
    /\ UNCHANGED <<wall, transport, session, data_queue, live, capture, playback, display,
                   lastKey, reference, detector, files, demucs_runs, VOCAL_PATH, load_result,
                   events, latency_writes>>

\* last_resume_wall_time = time.time()
MainResume ==
    /\ main_pc = "resume"
    /\ last_resume_wall_time' = wall
    /\ main_pc' = "release"
    /\ UNCHANGED <<wall, is_playing, current_playback_time, seek_to, session, data_queue, live,
                   capture, playback, display, lastKey, reference, detector, files, demucs_runs,
                   VOCAL_PATH, load_result, events, latency_writes>>

\* start_event.set(); the animation and the key handler run from here on
MainRelease ==
    /\ main_pc = "release"
    /\ start_event' = TRUE
    /\ main_pc' = "gui"
    /\ UNCHANGED <<wall, transport, session, data_queue, live, capture, playback, display,
                   lastKey, reference, detector, files, demucs_runs, VOCAL_PATH, load_result,
                   play_ready, input_ready, latency_writes>>

Main ==
    \/ MainIsolate
    \/ MainDemucs
    \/ MainGenerated
    \/ MainLoad
    \/ MainDuration
    \/ MainStartPlay
    \/ MainStartInput
    \/ MainWaitPlay
    \/ MainWaitInput
    \/ MainResume
    \/ MainRelease

\* play_audio up to its loop: wf = wave.open(filename, 'rb'); p.open(...)
PlayOpen ==
    /\ play_pc = "open"
    /\ play_pc' = "latency"
    /\ UNCHANGED <<wall, transport, session, data_queue, live, capture, wf_pos, display,
                   lastKey, offline>>

\* the output device cannot be opened: the thread ends with the exception
PlayOpenError ==
    /\ play_pc = "open"
    /\ play_pc' = "failed"
    /\ UNCHANGED <<wall, transport, session, data_queue, live, capture, wf_pos, display,
                   lastKey, offline>>

\* output_latency = stream.get_output_latency()
PlayLatency ==
    /\ play_pc = "latency"
    /\ \E l \in OutputLatencies : output_latency' = l
    /\ latency_writes' = [latency_writes EXCEPT !.output = @ + 1]
    /\ play_pc' = "ready"
    /\ UNCHANGED <<wall, transport, audio_duration, input_latency, audio_times, audio_notes,
                   wf_nframes, data_queue, live, capture, wf_pos, display, lastKey, reference,
                   detector, main_pc, files, demucs_runs, VOCAL_PATH, load_result, events>>

\* play_ready.set()
PlayReady ==
    /\ play_pc = "ready"
    /\ play_ready' = TRUE
    /\ play_pc' = "wait"
    /\ UNCHANGED <<wall, transport, session, data_queue, live, capture, wf_pos, display,
                   lastKey, reference, detector, main_pc, files, demucs_runs, VOCAL_PATH,
                   load_result, input_ready, start_event, latency_writes>>

StartEventSet_unwaited == TRUE

\* start_event.wait() returns
StartEventSet == start_event

\* start_event.wait() has returned
PlayGate ==
    /\ play_pc = "wait"
    /\ StartEventSet
    /\ play_pc' = "seek"
    /\ UNCHANGED <<wall, transport, session, data_queue, live, capture, wf_pos, display,
                   lastKey, offline>>

PlayStartup == PlayOpen \/ PlayOpenError \/ PlayLatency \/ PlayReady \/ PlayGate

\* audio_thread up to its loop: p.open(..., input=True, ...)
CapOpen ==
    /\ cap_pc = "open"
    /\ cap_pc' = "latency"
    /\ UNCHANGED <<wall, transport, session, data_queue, live, cap_hop, cap_note, cap_time,
                   cap_stale, playback, display, lastKey, offline>>

\* the input device cannot be opened: the thread ends with the exception
CapOpenError ==
    /\ cap_pc = "open"
    /\ cap_pc' = "failed"
    /\ UNCHANGED <<wall, transport, session, data_queue, live, cap_hop, cap_note, cap_time,
                   cap_stale, playback, display, lastKey, offline>>

\* input_latency = stream.get_input_latency()
CapLatency ==
    /\ cap_pc = "latency"
    /\ \E l \in InputLatencies : input_latency' = l
    /\ latency_writes' = [latency_writes EXCEPT !.input = @ + 1]
    /\ cap_pc' = "ready"
    /\ UNCHANGED <<wall, transport, audio_duration, output_latency, audio_times, audio_notes,
                   wf_nframes, data_queue, live, cap_hop, cap_note, cap_time, cap_stale,
                   playback, display, lastKey, reference, detector, main_pc, files,
                   demucs_runs, VOCAL_PATH, load_result, events>>

\* input_ready.set()
CapReady ==
    /\ cap_pc = "ready"
    /\ input_ready' = TRUE
    /\ cap_pc' = "wait"
    /\ UNCHANGED <<wall, transport, session, data_queue, live, cap_hop, cap_note, cap_time,
                   cap_stale, playback, display, lastKey, reference, detector, main_pc, files,
                   demucs_runs, VOCAL_PATH, load_result, play_ready, start_event,
                   latency_writes>>

\* start_event.wait() has returned
CapGateOpen ==
    /\ cap_pc = "wait"
    /\ StartEventSet
    /\ cap_pc' = "read"
    /\ UNCHANGED <<wall, transport, session, data_queue, live, cap_hop, cap_note, cap_time,
                   cap_stale, playback, display, lastKey, offline>>

CapStartup == CapOpen \/ CapOpenError \/ CapLatency \/ CapReady \/ CapGateOpen

\* the state the script has left when the GUI loop runs
StartupDone ==
    /\ main_pc = "gui"
    /\ vocal_file = "int16"
    /\ audio_file = "int16"
    /\ generated_vocal = "absent"
    /\ demucs_runs = 0
    /\ VOCAL_PATH = "vocals"
    /\ load_result = "ok"
    /\ play_ready = TRUE
    /\ input_ready = TRUE
    /\ start_event = TRUE
    /\ latency_writes = [input |-> 1, output |-> 1]

\* ------------------------------------------------------------------------
\* The session: both threads past the start gate, the GUI loop running
\* ------------------------------------------------------------------------
SessionInit ==
    /\ wall = 0
    /\ is_playing = TRUE
    /\ current_playback_time = 0
    /\ last_resume_wall_time = 0
    /\ seek_to = None
    /\ wf_nframes = TrackTicks * FramesPerTick
    /\ audio_duration = TrackTicks
    /\ input_latency \in InputLatencies
    /\ output_latency \in OutputLatencies
    /\ audio_times = SessionTrack.t
    /\ audio_notes = SessionTrack.n
    /\ data_queue = << >>
    /\ times = << >>
    /\ notes = << >>
    /\ times_stale = << >>
    /\ cap_pc = "read"
    /\ cap_hop = NoHop
    /\ cap_note = 0
    /\ cap_time = 0
    /\ cap_stale = FALSE
    /\ play_pc = "seek"
    /\ wf_pos = 0
    /\ live_shown = << >>
    /\ lastKey = "none"
    /\ GuiIdle
    /\ StartupDone

\* process_audio_file has returned
RefIdle ==
    /\ ref_pc = "done"
    /\ ref_data = << >>
    /\ ref_rate = SAMPLE_RATE
    /\ ref_i = 0
    /\ ref_start = 0
    /\ ref_times = << >>
    /\ ref_notes = << >>
    /\ ref_hops = << >>

\* no call of detect_pitch is under way
DetIdle ==
    /\ det_pc = "returned"
    /\ det_signal = << >>
    /\ det_rate = SAMPLE_RATE
    /\ det_out = Unvoiced
    /\ det_scan = NoScan

Init ==
    /\ SessionInit
    /\ RefIdle
    /\ DetIdle

\* the four key commands
Keys == OnKeySpace \/ OnKeyStop \/ OnKeyLeft \/ OnKeyRight

\* audio_thread
Capture == CapRead \/ CapError \/ CapCheckPlaying \/ CapGate \/ CapDetect \/ CapStamp \/ CapPut

\* play_audio
Playback == PlaySeek \/ PlayMode \/ PlaySilence \/ PlayChunk

\* process_audio_file
Reference == RefGate \/ RefDetect \/ RefReturn

Next == Tick \/ Keys \/ Capture \/ Playback \/ Update \/ Reference \/ Detect

Spec == Init /\ [][Next]_vars

\* The whole session is the product of three parts that share only the
\* transport state.  The capture thread and update write the channel, the
\* LiveBuffer and the live scatter, which the playback thread never reads;
\* the playback thread writes seek_to and the file cursor, neither of which
\* the clock, the capture thread or update reads.  Each part is therefore
\* checked with the other at rest, as if its thread were never scheduled.
NextLive ==
    \/ Tick
    \/ OnKeySpace
    \/ OnKeyStop
    \/ OnKeyLeft
    \/ OnKeyRight
    \/ CapRead
    \/ CapError
    \/ CapCheckPlaying
    \/ CapGate
    \/ CapDetect
    \/ CapStamp
    \/ CapPut
    \/ Update

SpecLive == Init /\ [][NextLive]_vars

NextPlay ==
    \/ Tick
    \/ OnKeySpace
    \/ OnKeyStop
    \/ OnKeyLeft
    \/ OnKeyRight
    \/ PlaySeek
    \/ PlayMode
    \/ PlaySilence
    \/ PlayChunk

SpecPlay == Init /\ [][NextPlay]_vars

\* The playback session with a playback thread that is scheduled again and
\* again as long as it has a step to take
SpecPlayFair == Init /\ [][NextPlay]_vars /\ WF_vars(Playback)

\* ------------------------------------------------------------------------
\* The offline functions on their own, their inputs drawn from bounded sets
\* ------------------------------------------------------------------------
Seqs(S, n) == UNION { [1..k -> S] : k \in 0..n }

\* sample values: silence and a level above the threshold, both signs
SampleValues == {0 - 4, 0, 4}

\* longest chunk handed to detect_pitch on its own
MaxChunk == 4
\* longest file handed to process_audio_file
MaxData == 7

\* sample rates: they give lag bands 1..1, 1..2, 1..3 and 2..(len - 2)
DetRates == {100, 150, 200, 2000}

\* file rates: they give hops of 2 and 3 samples
RefRates == {100, 150}

DetStart ==
    /\ det_pc = "call"
    /\ det_signal \in Seqs(SampleValues, MaxChunk) \ {<< >>}
    /\ det_rate \in DetRates
    /\ det_out = Unvoiced
    /\ det_scan = NoScan

\* rate, data = wavfile.read(filename) has returned mono samples
RefStart ==
    /\ ref_pc = "gate"
    /\ ref_data \in Seqs(SampleValues, MaxData)
    /\ ref_rate \in RefRates
    /\ ref_i = 0
    /\ ref_start = 0
    /\ ref_times = << >>
    /\ ref_notes = << >>
    /\ ref_hops = << >>

InitDetect ==
    /\ SessionInit
    /\ RefIdle
    /\ DetStart

SpecDetect == InitDetect /\ [][Detect]_vars

NextRef ==
    \/ RefGate
    \/ RefDetect
    \/ RefReturn

InitRef ==
    /\ SessionInit
    /\ RefStart
    /\ DetIdle

SpecRef == InitRef /\ [][NextRef]_vars

\* The reference builder followed by the capture loop: the threads are
\* started only after process_audio_file has returned.
NextGate ==
    \/ RefGate
    \/ RefDetect
    \/ RefReturn
    \/ (ref_pc = "done" /\ CapRead)
    \/ (ref_pc = "done" /\ CapError)
    \/ (ref_pc = "done" /\ CapCheckPlaying)
    \/ (ref_pc = "done" /\ CapGate)
    \/ (ref_pc = "done" /\ CapDetect)
    \/ (ref_pc = "done" /\ CapStamp)
    \/ (ref_pc = "done" /\ CapPut)
    \/ (ref_pc = "done" /\ Update)

SpecGate == InitRef /\ [][NextGate]_vars

\* update on its own: the clock, the reference track, the output latency and
\* the LiveBuffer drawn from bounded sets
MaxRefPoints == 2
MaxLivePoints == 2
ScoreNows == {55}
ScoreLatencies == {0, 1, 3}
ScoreRefTimes == {4, 5, 52, 53, 54, 55}
ScoreRefNotes == {57, 62}
ScoreLiveTimes == {5, 53, 55, 57}
ScoreLiveNotes == {57, 58}

StrictlyAscending(q) == \A i \in 1..(Len(q) - 1) : q[i] < q[i + 1]
NonDecreasing(q) == \A i \in 1..(Len(q) - 1) : q[i] <= q[i + 1]

ScoreInit ==
    /\ wall \in ScoreNows
    /\ is_playing = TRUE
    /\ current_playback_time = 0
    /\ last_resume_wall_time = 0
    /\ seek_to = None
    /\ wf_nframes = TrackTicks * FramesPerTick
    /\ audio_duration = TrackTicks
    /\ input_latency \in InputLatencies
    /\ output_latency \in ScoreLatencies
    /\ \E k \in 0..MaxRefPoints :
          /\ audio_times \in {q \in [1..k -> ScoreRefTimes] : StrictlyAscending(q)}
          /\ audio_notes \in [1..k -> ScoreRefNotes]
    /\ data_queue = << >>
    /\ \E k \in 0..MaxLivePoints :
          /\ times \in {q \in [1..k -> ScoreLiveTimes] : NonDecreasing(q)}
          /\ notes \in [1..k -> ScoreLiveNotes]
          /\ times_stale = [i \in 1..k |-> FALSE]
    /\ cap_pc = "read"
    /\ cap_hop = NoHop
    /\ cap_note = 0
    /\ cap_time = 0
    /\ cap_stale = FALSE
    /\ play_pc = "seek"
    /\ wf_pos = 0
    /\ live_shown = << >>
    /\ lastKey = "none"
    /\ GuiIdle
    /\ StartupDone

NextScore == Update

InitScore ==
    /\ ScoreInit
    /\ RefIdle
    /\ DetIdle

SpecScore == InitScore /\ [][NextScore]_vars

\* A 220 Hz sine sampled at SAMPLE_RATE repeats after 2205 samples (11
\* periods).  SineHalf holds round(40 * sin(2 * pi * 220 * i / 44100)) for
\* i = 0 .. 1102; the other half of the 2205 is its mirror image, negated.
\* The amplitude is 0.1 of full scale.
SineHalf ==
  << 0, 1, 3, 4, 5, 6, 7, 9, 10, 11, 12, 14, 15, 16, 17, 18, 19, 20, 21, 22, 23, 24, 25, 26,
     27, 28, 29, 30, 31, 32, 32, 33, 34, 34, 35, 36, 36, 37, 37, 38, 38, 38, 39, 39, 39, 39, 40, 40,
     40, 40, 40, 40, 40, 40, 40, 40, 39, 39, 39, 38, 38, 38, 37, 37, 36, 36, 35, 35, 34, 33, 32, 32,
     31, 30, 29, 28, 28, 27, 26, 25, 24, 23, 22, 21, 19, 18, 17, 16, 15, 14, 13, 11, 10, 9, 8, 7,
     5, 4, 3, 2, 0, 0 - 1, 0 - 2, 0 - 3, 0 - 5, 0 - 6, 0 - 7, 0 - 8, 0 - 10, 0 - 11, 0 - 12, 0 - 13, 0 - 14, 0 - 16, 0 - 17, 0 - 18, 0 - 19, 0 - 20, 0 - 21, 0 - 22,
     0 - 23, 0 - 24, 0 - 25, 0 - 26, 0 - 27, 0 - 28, 0 - 29, 0 - 30, 0 - 31, 0 - 31, 0 - 32, 0 - 33, 0 - 34, 0 - 34, 0 - 35, 0 - 35, 0 - 36, 0 - 37, 0 - 37, 0 - 37, 0 - 38, 0 - 38, 0 - 39, 0 - 39,
     0 - 39, 0 - 39, 0 - 40, 0 - 40, 0 - 40, 0 - 40, 0 - 40, 0 - 40, 0 - 40, 0 - 40, 0 - 40, 0 - 40, 0 - 39, 0 - 39, 0 - 39, 0 - 39, 0 - 38, 0 - 38, 0 - 37, 0 - 37, 0 - 36, 0 - 36, 0 - 35, 0 - 35,
     0 - 34, 0 - 33, 0 - 33, 0 - 32, 0 - 31, 0 - 30, 0 - 29, 0 - 29, 0 - 28, 0 - 27, 0 - 26, 0 - 25, 0 - 24, 0 - 23, 0 - 22, 0 - 21, 0 - 20, 0 - 19, 0 - 18, 0 - 16, 0 - 15, 0 - 14, 0 - 13, 0 - 12,
     0 - 10, 0 - 9, 0 - 8, 0 - 7, 0 - 6, 0 - 4, 0 - 3, 0 - 2, 0 - 1, 1, 2, 3, 4, 6, 7, 8, 9, 11, 12, 13, 14, 15, 16, 18,
     19, 20, 21, 22, 23, 24, 25, 26, 27, 28, 29, 30, 30, 31, 32, 33, 33, 34, 35, 35, 36, 36, 37, 37,
     38, 38, 39, 39, 39, 39, 40, 40, 40, 40, 40, 40, 40, 40, 40, 40, 39, 39, 39, 39, 38, 38, 37, 37,
     37, 36, 35, 35, 34, 34, 33, 32, 31, 31, 30, 29, 28, 27, 26, 25, 24, 23, 22, 21, 20, 19, 18, 17,
     15, 14, 13, 12, 11, 10, 8, 7, 6, 5, 3, 2, 1, 0, 0 - 2, 0 - 3, 0 - 4, 0 - 5, 0 - 7, 0 - 8, 0 - 9, 0 - 10, 0 - 12, 0 - 13,
     0 - 14, 0 - 15, 0 - 16, 0 - 17, 0 - 18, 0 - 20, 0 - 21, 0 - 22, 0 - 23, 0 - 24, 0 - 25, 0 - 26, 0 - 27, 0 - 28, 0 - 29, 0 - 29, 0 - 30, 0 - 31, 0 - 32, 0 - 33, 0 - 33, 0 - 34, 0 - 35, 0 - 35,
     0 - 36, 0 - 36, 0 - 37, 0 - 37, 0 - 38, 0 - 38, 0 - 38, 0 - 39, 0 - 39, 0 - 39, 0 - 40, 0 - 40, 0 - 40, 0 - 40, 0 - 40, 0 - 40, 0 - 40, 0 - 40, 0 - 40, 0 - 40, 0 - 39, 0 - 39, 0 - 39, 0 - 39,
     0 - 38, 0 - 38, 0 - 38, 0 - 37, 0 - 37, 0 - 36, 0 - 36, 0 - 35, 0 - 34, 0 - 34, 0 - 33, 0 - 32, 0 - 31, 0 - 31, 0 - 30, 0 - 29, 0 - 28, 0 - 27, 0 - 26, 0 - 25, 0 - 24, 0 - 23, 0 - 22, 0 - 21,
     0 - 20, 0 - 19, 0 - 18, 0 - 17, 0 - 16, 0 - 15, 0 - 13, 0 - 12, 0 - 11, 0 - 10, 0 - 9, 0 - 7, 0 - 6, 0 - 5, 0 - 4, 0 - 2, 0 - 1, 0, 1, 3, 4, 5, 6, 8,
     9, 10, 11, 12, 14, 15, 16, 17, 18, 19, 20, 21, 23, 24, 25, 26, 26, 27, 28, 29, 30, 31, 32, 32,
     33, 34, 34, 35, 36, 36, 37, 37, 38, 38, 38, 39, 39, 39, 40, 40, 40, 40, 40, 40, 40, 40, 40, 40,
     40, 39, 39, 39, 38, 38, 38, 37, 37, 36, 36, 35, 34, 34, 33, 32, 32, 31, 30, 29, 28, 27, 27, 26,
     25, 24, 23, 22, 20, 19, 18, 17, 16, 15, 14, 12, 11, 10, 9, 8, 6, 5, 4, 3, 1, 0, 0 - 1, 0 - 2,
     0 - 4, 0 - 5, 0 - 6, 0 - 7, 0 - 9, 0 - 10, 0 - 11, 0 - 12, 0 - 13, 0 - 15, 0 - 16, 0 - 17, 0 - 18, 0 - 19, 0 - 20, 0 - 21, 0 - 22, 0 - 23, 0 - 24, 0 - 25, 0 - 26, 0 - 27, 0 - 28, 0 - 29,
     0 - 30, 0 - 31, 0 - 31, 0 - 32, 0 - 33, 0 - 34, 0 - 34, 0 - 35, 0 - 36, 0 - 36, 0 - 37, 0 - 37, 0 - 38, 0 - 38, 0 - 38, 0 - 39, 0 - 39, 0 - 39, 0 - 39, 0 - 40, 0 - 40, 0 - 40, 0 - 40, 0 - 40,
     0 - 40, 0 - 40, 0 - 40, 0 - 40, 0 - 40, 0 - 39, 0 - 39, 0 - 39, 0 - 39, 0 - 38, 0 - 38, 0 - 37, 0 - 37, 0 - 36, 0 - 36, 0 - 35, 0 - 35, 0 - 34, 0 - 33, 0 - 33, 0 - 32, 0 - 31, 0 - 30, 0 - 29,
     0 - 29, 0 - 28, 0 - 27, 0 - 26, 0 - 25, 0 - 24, 0 - 23, 0 - 22, 0 - 21, 0 - 20, 0 - 19, 0 - 17, 0 - 16, 0 - 15, 0 - 14, 0 - 13, 0 - 12, 0 - 10, 0 - 9, 0 - 8, 0 - 7, 0 - 5, 0 - 4, 0 - 3,
     0 - 2, 0, 1, 2, 3, 5, 6, 7, 8, 9, 11, 12, 13, 14, 15, 17, 18, 19, 20, 21, 22, 23, 24, 25,
     26, 27, 28, 29, 30, 30, 31, 32, 33, 33, 34, 35, 35, 36, 36, 37, 37, 38, 38, 39, 39, 39, 39, 40,
     40, 40, 40, 40, 40, 40, 40, 40, 40, 39, 39, 39, 39, 38, 38, 37, 37, 36, 36, 35, 35, 34, 33, 33,
     32, 31, 30, 30, 29, 28, 27, 26, 25, 24, 23, 22, 21, 20, 19, 18, 17, 15, 14, 13, 12, 11, 9, 8,
     7, 6, 4, 3, 2, 1, 0 - 1, 0 - 2, 0 - 3, 0 - 4, 0 - 6, 0 - 7, 0 - 8, 0 - 9, 0 - 10, 0 - 12, 0 - 13, 0 - 14, 0 - 15, 0 - 16, 0 - 17, 0 - 19, 0 - 20, 0 - 21,
     0 - 22, 0 - 23, 0 - 24, 0 - 25, 0 - 26, 0 - 27, 0 - 28, 0 - 29, 0 - 29, 0 - 30, 0 - 31, 0 - 32, 0 - 33, 0 - 33, 0 - 34, 0 - 35, 0 - 35, 0 - 36, 0 - 36, 0 - 37, 0 - 37, 0 - 38, 0 - 38, 0 - 39,
     0 - 39, 0 - 39, 0 - 39, 0 - 40, 0 - 40, 0 - 40, 0 - 40, 0 - 40, 0 - 40, 0 - 40, 0 - 40, 0 - 40, 0 - 40, 0 - 39, 0 - 39, 0 - 39, 0 - 39, 0 - 38, 0 - 38, 0 - 38, 0 - 37, 0 - 37, 0 - 36, 0 - 35,
     0 - 35, 0 - 34, 0 - 34, 0 - 33, 0 - 32, 0 - 31, 0 - 31, 0 - 30, 0 - 29, 0 - 28, 0 - 27, 0 - 26, 0 - 25, 0 - 24, 0 - 23, 0 - 22, 0 - 21, 0 - 20, 0 - 19, 0 - 18, 0 - 17, 0 - 16, 0 - 14, 0 - 13,
     0 - 12, 0 - 11, 0 - 10, 0 - 8, 0 - 7, 0 - 6, 0 - 5, 0 - 4, 0 - 2, 0 - 1, 0, 1, 3, 4, 5, 6, 8, 9, 10, 11, 13, 14, 15, 16,
     17, 18, 19, 21, 22, 23, 24, 25, 26, 27, 27, 28, 29, 30, 31, 32, 32, 33, 34, 34, 35, 36, 36, 37,
     37, 38, 38, 38, 39, 39, 39, 40, 40, 40, 40, 40, 40, 40, 40, 40, 40, 39, 39, 39, 39, 38, 38, 38,
     37, 37, 36, 36, 35, 34, 34, 33, 32, 32, 31, 30, 29, 28, 27, 26, 25, 25, 24, 22, 21, 20, 19, 18,
     17, 16, 15, 14, 12, 11, 10, 9, 8, 6, 5, 4, 3, 1, 0, 0 - 1, 0 - 2, 0 - 4, 0 - 5, 0 - 6, 0 - 7, 0 - 9, 0 - 10, 0 - 11,
     0 - 12, 0 - 13, 0 - 15, 0 - 16, 0 - 17, 0 - 18, 0 - 19, 0 - 20, 0 - 21, 0 - 22, 0 - 23, 0 - 24, 0 - 25, 0 - 26, 0 - 27, 0 - 28, 0 - 29, 0 - 30, 0 - 31, 0 - 32, 0 - 32, 0 - 33, 0 - 34, 0 - 34,
     0 - 35, 0 - 36, 0 - 36, 0 - 37, 0 - 37, 0 - 38, 0 - 38, 0 - 38, 0 - 39, 0 - 39, 0 - 39, 0 - 39, 0 - 40, 0 - 40, 0 - 40, 0 - 40, 0 - 40, 0 - 40, 0 - 40, 0 - 40, 0 - 40, 0 - 40, 0 - 39, 0 - 39,
     0 - 39, 0 - 38, 0 - 38, 0 - 38, 0 - 37, 0 - 37, 0 - 36, 0 - 36, 0 - 35, 0 - 35, 0 - 34, 0 - 33, 0 - 33, 0 - 32, 0 - 31, 0 - 30, 0 - 29, 0 - 28, 0 - 28, 0 - 27, 0 - 26, 0 - 25, 0 - 24, 0 - 23,
     0 - 22, 0 - 21, 0 - 20, 0 - 18, 0 - 17, 0 - 16, 0 - 15, 0 - 14, 0 - 13, 0 - 11, 0 - 10, 0 - 9, 0 - 8, 0 - 7, 0 - 5, 0 - 4, 0 - 3, 0 - 2, 0, 1, 2, 3, 5, 6,
     7, 8, 10, 11, 12, 13, 14, 16, 17, 18, 19, 20, 21, 22, 23, 24, 25, 26, 27, 28, 29, 30, 31, 31,
     32, 33, 34, 34, 35, 35, 36, 37, 37, 37, 38, 38, 39, 39, 39, 39, 40, 40, 40, 40, 40, 40, 40, 40,
     40, 40, 39, 39, 39, 39, 38, 38, 37, 37, 36, 36, 35, 35, 34, 33, 33, 32, 31, 30, 30, 29, 28, 27,
     26, 25, 24, 23, 22, 21, 20, 19, 18, 16, 15, 14, 13, 12, 11, 9, 8, 7, 6, 4, 3, 2, 1 >>

SinePeriod == 2205

SineAt(i) ==
    LET j == i % SinePeriod
    IN  IF 2 * j < SinePeriod THEN SineHalf[j + 1] ELSE 0 - SineHalf[SinePeriod - j + 1]

\* the hops of the sine stream that are handed to detect_pitch
MaxSineHop == 2

\* hop h of the stream: HOP_SIZE samples from sample h * HOP_SIZE on
SineHop(h) == [i \in 1..HOP_SIZE |-> SineAt(h * HOP_SIZE + i - 1)]

SineStart ==
    /\ det_pc = "enter"
    /\ \E h \in 0..MaxSineHop : det_signal = SineHop(h)
    /\ det_rate = SAMPLE_RATE
    /\ det_out = Unvoiced
    /\ det_scan = NoScan

InitSine ==
    /\ SessionInit
    /\ RefIdle
    /\ SineStart

NextSine ==
    \/ HopEnter
    \/ HopScan
    \/ HopReturn

SpecSine == InitSine /\ [][NextSine]_vars

\* The session with the pause/resume command only: the capture thread, the
\* playback thread, the display tick and the clock together.  Seeks and stop
\* touch neither thread's position in its loop.
NextDevice ==
    \/ Tick
    \/ OnKeySpace
    \/ Capture
    \/ Playback
    \/ Update

SpecDevice == Init /\ [][NextDevice]_vars

\* The script from its first statement: the files on disk and what demucs
\* would leave are drawn; demucs leaves nothing when there is no input file
InitStart ==
    /\ wall = 0
    /\ is_playing = TRUE
    /\ current_playback_time = 0
    /\ last_resume_wall_time = None
    /\ seek_to = None
    /\ wf_nframes = TrackTicks * FramesPerTick
    /\ audio_duration = 0
    /\ input_latency = 0
    /\ output_latency = 0
    /\ audio_times = << >>
    /\ audio_notes = << >>
    /\ data_queue = << >>
    /\ times = << >>
    /\ notes = << >>
    /\ times_stale = << >>
    /\ cap_pc = "unstarted"
    /\ cap_hop = NoHop
    /\ cap_note = 0
    /\ cap_time = 0
    /\ cap_stale = FALSE
    /\ play_pc = "unstarted"
    /\ wf_pos = 0
    /\ live_shown = << >>
    /\ lastKey = "none"
    /\ GuiIdle
    /\ RefIdle
    /\ DetIdle
    /\ main_pc = "isolate"
    /\ vocal_file \in SampleFormats \cup {"absent", "corrupt"}
    /\ audio_file \in {"int16", "uint8", "absent"}
    /\ generated_vocal \in {"absent", "int16", "corrupt"}
    /\ audio_file = "absent" => generated_vocal = "absent"
    /\ demucs_runs = 0
    /\ VOCAL_PATH = "unset"
    /\ load_result = "none"
    /\ play_ready = FALSE
    /\ input_ready = FALSE
    /\ start_event = FALSE
    /\ latency_writes = [input |-> 0, output |-> 0]

\* the script, the two threads from their start, and the animation and the
\* pause/resume command once the script has reached plt.show()
NextStart ==
    \/ Main
    \/ PlayStartup
    \/ CapStartup
    \/ Capture
    \/ Playback
    \/ (main_pc = "gui" /\ Update)
    \/ (main_pc = "gui" /\ OnKeySpace)

SpecStart == InitStart /\ [][NextStart]_vars

\* The script and the readers of the clock, with every key command, for
\* files that load: the vocals file is there, or demucs makes it, or the
\* original is used.  The playback thread is taken up to the start gate; its
\* loop reads neither the clock nor last_resume_wall_time.
InitKeys ==
    /\ InitStart
    /\ audio_file = "int16"
    /\ vocal_file \in {"int16", "absent"}
    /\ generated_vocal \in {"int16", "absent"}

NextKeys ==
    \/ Main
    \/ PlayStartup
    \/ CapStartup
    \/ Capture
    \/ (main_pc = "gui" /\ Update)
    \/ (main_pc = "gui" /\ OnKeySpace)
    \/ (main_pc = "gui" /\ OnKeyStop)
    \/ (main_pc = "gui" /\ OnKeyLeft)
    \/ (main_pc = "gui" /\ OnKeyRight)

SpecKeys == InitKeys /\ [][NextKeys]_vars

\* The session over a longer stretch of the clock, with the backward seek as
\* its only command: time.time() counts from an arbitrary origin, here
\* SessionEpoch, at which line 435 is executed
SessionEpoch == 0 - 40

InitLong ==
    /\ wall = SessionEpoch
    /\ is_playing = TRUE
    /\ current_playback_time = 0
    /\ last_resume_wall_time = SessionEpoch
    /\ seek_to = None
    /\ wf_nframes = TrackTicks * FramesPerTick
    /\ audio_duration = TrackTicks
    /\ input_latency \in InputLatencies
    /\ output_latency \in OutputLatencies
    /\ audio_times = SessionTrack.t
    /\ audio_notes = SessionTrack.n
    /\ data_queue = << >>
    /\ times = << >>
    /\ notes = << >>
    /\ times_stale = << >>
    /\ cap_pc = "read"
    /\ cap_hop = NoHop
    /\ cap_note = 0
    /\ cap_time = 0
    /\ cap_stale = FALSE
    /\ play_pc = "seek"
    /\ wf_pos = 0
    /\ live_shown = << >>
    /\ lastKey = "none"
    /\ GuiIdle
    /\ StartupDone
    /\ RefIdle
    /\ DetIdle

NextLong ==
    \/ Tick
    \/ OnKeyLeft
    \/ CapRead
    \/ CapCheckPlaying
    \/ CapGate
    \/ CapDetect
    \/ CapStamp
    \/ CapPut
    \/ Update

SpecLong == InitLong /\ [][NextLong]_vars

\* The session with the GUI thread taken statement by statement, against
\* the capture thread.  The thread enters its critical sections only when
\* the mutex is free; its put and the rest of its loop need no mutex.  The
\* guard of the put bounds the model.
NextGui ==
    \/ KeyPress
    \/ KeyAcquire
    \/ KeyBody
    \/ KeyEmpty
    \/ KeyGet
    \/ KeyRelease
    \/ UpdClock
    \/ UpdEmpty
    \/ UpdGet
    \/ UpdAppend
    \/ UpdShow
    \/ CapRead
    \/ (LockFree /\ CapCheckPlaying)
    \/ CapGate
    \/ CapDetect
    \/ (LockFree /\ CapStamp)
    \/ (Len(new_data) + Len(data_queue) + Len(times) < MaxLive /\ CapPut)

SpecGui == Init /\ [][NextGui]_vars


\* ------------------------------------------------------------------------
\* Properties
\* ------------------------------------------------------------------------
\* a step of a stop or seek command
SeekOrStop == OnKeyStop \/ OnKeyLeft \/ OnKeyRight

\* C1: after a stop or seek command no pitch event whose timestamp was
\* computed from the clock as it was before the command is appended to the
\* LiveBuffer, the capture thread running at any speed against the command
C1_NoPreCommandEvent == \A i \in 1..Len(times_stale) : ~times_stale[i]

Clamp(v, lo, hi) == Max(lo, Min(v, hi))

\* C2: a seek in either direction sets current_playback_time and seek_to to
\* clamp(now() + delta, 0, trackDuration), delta being -2 s or +2 s
C2_SeekClamped ==
    [][ /\ OnKeyLeft =>
             /\ current_playback_time' = Clamp(get_elapsed_playing_time - SEEK_STEP, 0, audio_duration)
             /\ seek_to' = Some(Clamp(get_elapsed_playing_time - SEEK_STEP, 0, audio_duration))
        /\ OnKeyRight =>
             /\ current_playback_time' = Clamp(get_elapsed_playing_time + SEEK_STEP, 0, audio_duration)
             /\ seek_to' = Some(Clamp(get_elapsed_playing_time + SEEK_STEP, 0, audio_duration))
      ]_vars

\* C3: across every step that is no seek and no stop, now() does not decrease
\* while the mode stays Playing and does not change while it stays Paused
C3_NowMonotonic ==
    [][ ~SeekOrStop =>
          /\ (is_playing /\ is_playing') => get_elapsed_playing_time' >= get_elapsed_playing_time
          /\ (~is_playing /\ ~is_playing') => get_elapsed_playing_time' = get_elapsed_playing_time
      ]_vars

\* the clock has run since a resume
C3_Witness ==
    /\ lastKey = "space"
    /\ is_playing
    /\ get_elapsed_playing_time > current_playback_time
    /\ current_playback_time > 0

\* C4: across every step that is no seek and no stop, now() grows by exactly
\* the wall-clock time of the step when the mode is Playing and by nothing
\* when it is Paused (a pause or a resume takes no wall-clock time): so the
\* time spent Paused is never counted, now() after a resume is now() before
\* the pause, and now() is the sum of the Playing intervals
C4_PausedTimeNotCounted ==
    [][ ~SeekOrStop =>
          get_elapsed_playing_time' =
              get_elapsed_playing_time + (IF is_playing THEN wall' - wall ELSE 0)
      ]_vars

\* playing again after a pause that lasted some wall-clock time
C4_Witness ==
    /\ lastKey = "space"
    /\ is_playing
    /\ last_resume_wall_time > 0
    /\ current_playback_time > 0
    /\ get_elapsed_playing_time < wall

\* the state a stop leaves
Stopped ==
    /\ ~is_playing
    /\ current_playback_time = 0
    /\ seek_to = Some(0)
    /\ times = << >>
    /\ notes = << >>
    /\ data_queue = << >>

\* C5: a stop leaves the mode Paused, current_playback_time 0, seek_to 0, the
\* LiveBuffer and the channel empty; now() is 0 until the next command; and a
\* stop applied to the state a stop has left changes nothing
C5_StopResets ==
    [][ /\ OnKeyStop => Stopped'
        /\ lastKey' = "s" => get_elapsed_playing_time' = 0
        /\ (OnKeyStop /\ Stopped) => UNCHANGED program
      ]_vars

\* a stop has emptied a LiveBuffer that held an event, and time has passed
C5_Witness ==
    /\ lastKey = "s"
    /\ wall > last_resume_wall_time
    /\ live_shown # << >>
    /\ times = << >>

\* C6: current_playback_time stays within [0, trackDuration]
C6_PlaybackTimeInTrack == 0 <= current_playback_time /\ current_playback_time <= audio_duration

\* the reference points at or before now, by index into the reference track
AtOrBeforeNow(now) == {j \in 1..Len(audio_times) : audio_times[j] <= now}

\* C7: at each tick every shown live point has the error |liveNote - refNote|
\* for the reference point nearest in time among those at or before now when
\* that gap is below 0.2 s, and the penalty 3 otherwise, also when there is
\* no reference point at or before now, whatever the output latency is
C7_ErrorByNearestReference ==
    [][ Update =>
          LET now == get_elapsed_playing_time'
              pts == SelectSeq(LivePoints(times', notes', now), InLiveWindow)
              E == AtOrBeforeNow(now)
              Gap(j, p) == Abs(audio_times[j] - (p.x + now))
          IN  /\ Len(live_shown') = Len(pts)
              /\ \A i \in 1..Len(pts) :
                    /\ live_shown'[i].x = pts[i].x
                    /\ live_shown'[i].y = pts[i].y
                    /\ IF E = {}
                         THEN live_shown'[i].err = UNMATCHED_ERROR
                         ELSE \E j \in E :
                                /\ \A k \in E : Gap(j, pts[i]) <= Gap(k, pts[i])
                                /\ live_shown'[i].err =
                                     IF Gap(j, pts[i]) < MATCH_TOLERANCE
                                       THEN Abs(pts[i].y - audio_notes[j])
                                       ELSE UNMATCHED_ERROR
      ]_vars

\* the hop with 0-based index k of the file being processed
HopChunk(k) == Chunk(ref_data, k * FileHopSize(ref_rate), FileHopSize(ref_rate))

\* the chunk passes the energy gate: its RMS is not below the threshold
GatedIn(chunk) == SumSquares(chunk) >= VOLUME_THRESHOLD * VOLUME_THRESHOLD * Len(chunk)

\* C8: in process_audio_file the event of hop i has the timestamp
\* i * hopSamples / fileRate (here in samples: i * hopSamples), the
\* accumulator having advanced by one hop per hop, gated out, unvoiced or
\* voiced; events come only from gated-in voiced hops; the timestamps are
\* strictly ascending
C8_HopTimestamps ==
    /\ ref_start = ref_i
    /\ ref_i = (ref_i \div FileHopSize(ref_rate)) * FileHopSize(ref_rate)
    /\ Len(ref_times) = Len(ref_hops) /\ Len(ref_notes) = Len(ref_hops)
    /\ \A e \in 1..Len(ref_hops) :
          /\ ref_times[e] = ref_hops[e] * FileHopSize(ref_rate)
          /\ ref_hops[e] < ref_i \div FileHopSize(ref_rate)
          /\ GatedIn(HopChunk(ref_hops[e]))
          /\ InBand(detect_pitch(HopChunk(ref_hops[e]), ref_rate))
    /\ StrictlyAscending(ref_times)

\* the builder has finished a file whose first hop was gated out, whose
\* second passed the gate and was unvoiced, and whose third gave an event
C8_Witness ==
    /\ ref_pc = "done"
    /\ Len(ref_data) > 3 * FileHopSize(ref_rate)
    /\ ~GatedIn(HopChunk(0))
    /\ GatedIn(HopChunk(1))
    /\ ~InBand(detect_pitch(HopChunk(1), ref_rate))
    /\ ref_hops = <<2>>
    /\ ref_times = <<2 * FileHopSize(ref_rate)>>

\* C9: detect_pitch reports unvoiced (a frequency outside [50, 2000] Hz)
\* whenever the lag-0 autocorrelation of the chunk is zero, as it is for an
\* all-zero chunk, for every chunk length and sample rate
C9_ZeroChunkUnvoiced ==
    (det_pc = "returned" /\ Corr(Centered(det_signal), 0) = 0) => ~InBand(det_out)

\* C10: the energy gate runs before the detector on both paths: a hop whose
\* RMS is below the threshold never reaches detect_pitch and never becomes a
\* pitch event, an all-zero hop in particular
C10_GateBeforeDetector ==
    /\ cap_pc \in {"detect", "stamp", "put"} => cap_hop.rms >= VOLUME_THRESHOLD
    /\ ref_pc = "detect" => GatedIn(HopChunk(ref_i \div FileHopSize(ref_rate)))
    /\ \A e \in 1..Len(ref_hops) :
          /\ GatedIn(HopChunk(ref_hops[e]))
          /\ SumSquares(HopChunk(ref_hops[e])) > 0

\* the builder has dropped an all-zero hop of the file and emitted an event
\* for another; the capture loop, with an event already queued, holds an
\* all-zero hop at the gate
C10_Witness ==
    /\ ref_pc = "done"
    /\ \E k \in 0..((Len(ref_data) \div FileHopSize(ref_rate)) - 2) :
          /\ SumSquares(HopChunk(k)) = 0
          /\ \A e \in 1..Len(ref_hops) : ref_hops[e] # k
    /\ Len(ref_hops) > 0
    /\ cap_pc = "gate"
    /\ cap_hop = ZeroHop
    /\ Len(data_queue) > 0

\* C11: when the reference file's samples are neither 16-bit integers,
\* 32-bit integers nor 32-bit floats the load fails and the session is
\* aborted: no thread is ever started and the start gate is never released
C11_UnsupportedFormatAborts ==
    load_result = "unsupported" =>
        /\ play_pc = "unstarted"
        /\ cap_pc = "unstarted"
        /\ ~start_event

\* the reference track process_audio_file computes from the original file
TrackOfOriginal == IF LoadResult(audio_file) = "ok" THEN SessionTrack ELSE [t |-> << >>, n |-> << >>]

\* C12: the isolation tool runs only when the vocals file does not exist;
\* when the reference file cannot be read, or the tool has left no output,
\* the session goes on with the reference track of the original file
C12_FallbackToOriginal ==
    [][ /\ MainDemucs => vocal_file = "absent"
        /\ (MainLoad /\ (Unreadable(FileAt(VOCAL_PATH)) \/ (demucs_runs > 0 /\ vocal_file = "absent"))) =>
              /\ audio_times' = TrackOfOriginal.t
              /\ audio_notes' = TrackOfOriginal.n
        /\ (load_result = "read_error" \/ (demucs_runs > 0 /\ vocal_file = "absent")) =>
              main_pc' # "died"
      ]_vars

\* positions of the two threads inside their loops
CapLoop == {"read", "check", "gate", "detect", "stamp", "put", "stopped"}
PlayLoop == {"seek", "mode", "silence", "read", "done", "crashed"}

\* C13: the start gate is released only after both ready events are set; no
\* thread is in its loop (device read or write, clock read) before the
\* release; each latency is written exactly once, before the gate, hence
\* before any timestamp or display computation reads it
C13_StartBarrier ==
    /\ start_event => (play_ready /\ input_ready)
    /\ cap_pc \in CapLoop => start_event
    /\ play_pc \in PlayLoop => start_event
    /\ latency_writes.input <= 1 /\ latency_writes.output <= 1
    /\ input_ready => (latency_writes.input = 1 /\ input_latency \in InputLatencies)
    /\ play_ready => (latency_writes.output = 1 /\ output_latency \in OutputLatencies)
    /\ (main_pc \in {"release", "gui"} \/ cap_pc \in CapLoop \/ play_pc \in PlayLoop) =>
          latency_writes = [input |-> 1, output |-> 1]

\* past the gate a timestamp has been computed and shown, and the playback
\* loop is about to read its first chunk
C13_Witness ==
    /\ main_pc = "gui"
    /\ load_result # "none"
    /\ live_shown # << >>
    /\ play_pc = "read"
    /\ wf_pos = 0

\* C14: a pending seek target is applied to the file position and cleared
\* in one step of the playback loop, so it is applied at most once; a
\* target disappears only by being applied, never by a clear that came
\* after a later write; only the commands write targets
C14_ApplyOnce ==
    [][ /\ (PlaySeek /\ seek_to # None /\ play_pc' = "mode") =>
              (wf_pos' = FramePos(seek_to[1]) /\ seek_to' = None)
        /\ (seek_to # None /\ seek_to' = None) =>
              (PlaySeek /\ wf_pos' = FramePos(seek_to[1]))
        /\ (PlaySeek /\ seek_to = None) => wf_pos' = wf_pos
        /\ (seek_to' # seek_to /\ seek_to' # None) => SeekOrStop
      ]_vars

\* a forward seek has been applied and cleared, and the loop has gone on
C14_Witness ==
    /\ lastKey = "right"
    /\ seek_to = None
    /\ wf_pos = FramePos(current_playback_time)
    /\ wf_pos > 0
    /\ play_pc = "mode"

\* C15: while the mode is not Playing the playback loop writes only silence
\* and the file position does not advance, however a pause interleaves
\* with the loop
C15_SilentWhileNotPlaying ==
    [][ ~is_playing => ~(PlayChunk /\ wf_pos' # wf_pos) ]_vars

\* C16: a device error ends the capture thread and nothing else: from then
\* on the thread reads nothing, pushes nothing and is never restarted, while
\* the clock, the commands, the playback loop and update can still run
C16_CaptureErrorTerminal ==
    [][ /\ CapError => cap_pc' = "stopped"
        /\ cap_pc = "stopped" =>
              /\ cap_pc' = "stopped"
              /\ UNCHANGED <<cap_hop, cap_note, cap_time>>
              /\ Len(data_queue') <= Len(data_queue)
              /\ ENABLED Update
              /\ ENABLED OnKeySpace
              /\ (wall + WallStep <= MaxWall) => ENABLED Tick
              /\ play_pc \in {"seek", "mode", "silence", "read"} => ENABLED Playback
      ]_vars

\* the capture thread has died with an event still queued; the clock has
\* advanced and the playback loop is reading chunks
C16_Witness ==
    /\ cap_pc = "stopped"
    /\ Len(data_queue) > 0
    /\ wall > 0
    /\ play_pc = "read"
    /\ wf_pos > 0

\* C17: an empty chunk ends the playback loop for good: afterwards the
\* thread writes nothing, never moves the file position, applies no seek
\* and does not start the track again, whatever commands follow
C17_EndOfStreamTerminal ==
    [][ /\ (PlayChunk /\ wf_pos >= wf_nframes) => play_pc' = "done"
        /\ play_pc = "done" =>
              /\ play_pc' = "done"
              /\ wf_pos' = wf_pos
              /\ seek_to # None => seek_to' # None
      ]_vars

\* after the end of the stream a stop command has asked for position 0,
\* and the file position is still at the end
C17_Witness ==
    /\ play_pc = "done"
    /\ lastKey = "s"
    /\ seek_to = Some(0)
    /\ wf_pos = wf_nframes

\* 220 Hz, the frequency of MIDI note 57
NOTE_57_HZ == 220

\* |f - 220| <= 5 for the frequency f = num / den
WithinFiveHertz(f) ==
    /\ f.num - NOTE_57_HZ * f.den <= 5 * f.den
    /\ NOTE_57_HZ * f.den - f.num <= 5 * f.den

\* |69 + 12 * log2(f / 440) - 57| <= 0.1, that is f / 220 within a factor
\* 2^(1/120) = 1.005793 of 1; the factor is taken as 1.0058, a little wider
WithinTenthSemitone(f) ==
    /\ 10000 * f.num <= 10058 * NOTE_57_HZ * f.den
    /\ 10058 * f.num >= 10000 * NOTE_57_HZ * f.den

\* C18: for a 1024-sample chunk of a 220 Hz sine sampled at 44100 Hz
\* detect_pitch returns a voiced frequency within 5 Hz of 220 whose
\* fractional MIDI note is within 0.1 semitone of 57
C18_SinePitch ==
    det_pc = "returned" =>
        /\ InBand(det_out)
        /\ WithinFiveHertz(det_out)
        /\ WithinTenthSemitone(det_out)

\* C19: in every reachable state the timestamps held in the LiveBuffer
\* (times) are non-decreasing from front to back, whatever the interleaving
\* of the capture thread's timestamp-then-enqueue sequence with update and
\* with the stop and backward-seek commands
C19_LiveBufferOrdered == NonDecreasing(times)

\* the steps that are made inside a `with lock:` block
WithLock ==
    \/ OnKeySpace \/ OnKeyStop \/ OnKeyLeft \/ OnKeyRight
    \/ CapCheckPlaying
    \/ CapStamp
    \/ PlaySeek
    \/ Update

\* the steps that read a field of the transport state: the commands, the
\* capture thread's mode test and timestamp, the playback thread's seek
\* test and mode test, and update's clock reading
ReadsTransport ==
    \/ OnKeySpace \/ OnKeyStop \/ OnKeyLeft \/ OnKeyRight
    \/ CapCheckPlaying
    \/ CapStamp
    \/ PlaySeek
    \/ PlayMode
    \/ Update

\* C20: after the start gate every read or write of is_playing,
\* current_playback_time, last_resume_wall_time or seek_to, by the capture
\* thread, the playback thread, update or a command, is made while the
\* mutex is held
C20_TransportUnderLock ==
    [][ (transport' # transport \/ ReadsTransport) => WithLock ]_vars

\* the steps made wholly inside a `with lock:` block: the commands, the
\* capture thread's mode test, the playback thread's seek test
InsideLock ==
    \/ OnKeySpace \/ OnKeyStop \/ OnKeyLeft \/ OnKeyRight
    \/ CapCheckPlaying
    \/ PlaySeek

\* C21: no thread does I/O or a potentially blocking operation while it
\* holds the mutex: a step made inside the critical section takes nothing
\* from the queue (data_queue.get) and does not move the file cursor
\* (wf.setpos)
C21_NoBlockingUnderLock ==
    [][ InsideLock => (data_queue' = data_queue /\ wf_pos' = wf_pos) ]_vars

\* now - retentionWindow, the cutoff of the pruning loop
RetentionCutoff == get_elapsed_playing_time - PAST_DURATION - PRUNE_MARGIN

\* C22: right after the pruning step of every update no entry of the
\* LiveBuffer has a timestamp older than now - (PAST_DURATION + 1)
C22_NothingOlderThanRetention ==
    [][ Update => \A i \in 1..Len(times') : times'[i] >= RetentionCutoff ]_vars

\* the hops the loop of process_audio_file has gone through
HopsEvaluated == ref_i \div FileHopSize(ref_rate)

\* C23: process_audio_file goes through consecutive hops at the offsets
\* 0, h, 2h, ... and evaluates every complete hop: floor(N / h) of them for
\* N samples, the last one included when N is a multiple of h
C23_EveryCompleteHop ==
    /\ ref_i = HopsEvaluated * FileHopSize(ref_rate)
    /\ ref_pc = "done" => HopsEvaluated = Len(ref_data) \div FileHopSize(ref_rate)

\* C24: a seek by delta issued when now() = t puts now() at
\* clamp(t + delta, 0, trackDuration); from there on, as long as no command
\* intervenes, now() grows by exactly the wall-clock time while Playing (the
\* time before the seek is not counted twice) and stays constant while
\* Paused
C24_SeekKeepsRate ==
    [][ /\ OnKeyLeft =>
             get_elapsed_playing_time' = Clamp(get_elapsed_playing_time - SEEK_STEP, 0, audio_duration)
        /\ OnKeyRight =>
             get_elapsed_playing_time' = Clamp(get_elapsed_playing_time + SEEK_STEP, 0, audio_duration)
        /\ ~Keys =>
             get_elapsed_playing_time' =
                 get_elapsed_playing_time + (IF is_playing THEN wall' - wall ELSE 0)
      ]_vars

\* the positions of the GUI thread at a data_queue.get()
AtGet == {"key_get", "upd_get"}

\* C25: draining the channel never waits: a get is reached only with an item
\* in the queue, and only the GUI thread's own gets take items out, so the
\* item seen by the emptiness test is still there at the get; a drain that
\* finds the channel empty leaves the loop at once and changes neither the
\* LiveBuffer nor the channel
C25_DrainNeverWaits ==
    [][ /\ gui_pc' \in AtGet => data_queue' # << >>
        /\ Len(data_queue') < Len(data_queue) => (KeyGet \/ UpdGet)
        /\ (KeyEmpty /\ data_queue = << >>) =>
              (gui_pc' = "key_release" /\ UNCHANGED <<data_queue, times, notes>>)
        /\ (UpdEmpty /\ data_queue = << >>) =>
              (gui_pc' = "upd_append" /\ UNCHANGED <<data_queue, times, notes>>)
        /\ (UpdAppend /\ new_data = << >>) => UNCHANGED <<data_queue, times, notes>>
      ]_vars

\* the stop command has found the channel empty and got nothing, while the
\* capture thread is about to put an event
C25_Witness ==
    /\ gui_pc = "key_release"
    /\ gui_key = "s"
    /\ key_len = 0
    /\ key_gets = 0
    /\ data_queue = << >>
    /\ cap_pc = "put"

\* the closed lag band [sampleRate/1000, sampleRate/50], clamped to the lags
\* 1 .. n - 1 a chunk of n samples has
BandLow(sample_rate) == Max(1, sample_rate \div 1000)
BandHigh(n, sample_rate) == Min(sample_rate \div 50, n - 1)

\* C26: detect_pitch selects the lag of the highest correlation over the
\* whole closed band, both end lags included: a voiced result has a lag no
\* lag of the band beats, an unvoiced one means that no lag of the band
\* passes the confidence test; and the result is unvoiced whenever the
\* lower bound is at or above the upper bound
C26_ClosedLagBand ==
    det_pc = "returned" =>
        LET c == Centered(det_signal)
            lo == BandLow(det_rate)
            hi == BandHigh(Len(det_signal), det_rate)
        IN  /\ MinLag(det_rate) >= MaxLag(Len(det_signal), det_rate) => det_out = Unvoiced
            /\ (lo < hi /\ det_out # Unvoiced) =>
                  \A l \in lo..hi : Corr(c, det_out.den) >= Corr(c, l)
            /\ (lo < hi /\ det_out = Unvoiced) =>
                  \A l \in lo..hi : LowConfidence(Corr(c, l), Corr(c, 0))

\* C27: with the playback thread scheduled fairly, a seek target set by a
\* stop or seek command is eventually applied and cleared (itself or the
\* later target that replaced it), also when the command comes after the
\* end of the track
C27_SeekEventuallyApplied == (seek_to # None) ~> (seek_to = None)

\* last_resume_wall_time is a value of time.time(), not None (a number and
\* None are told apart by their printed forms)
ResumeClockIsSet == ToString(last_resume_wall_time) # ToString(None)

\* C28: whenever get_elapsed_playing_time or a command takes its Playing
\* branch, last_resume_wall_time holds a wall-clock value: the capture thread
\* stamps, and update and on_key run, only past the start gate, the script
\* sets the value just before it releases the gate, and nothing sets it
\* back to None
C28_ResumeClockSet ==
    /\ (cap_pc = "stamp" /\ is_playing) => ResumeClockIsSet
    /\ (main_pc = "gui" /\ is_playing) => ResumeClockIsSet
    /\ start_event => ResumeClockIsSet

\* past the gate the capture thread is about to read the clock in the
\* Playing mode, after a command that has set a seek target
C28_Witness ==
    /\ cap_pc = "stamp"
    /\ is_playing
    /\ main_pc = "gui"
    /\ lastKey = "left"
    /\ ResumeClockIsSet

\* the positions of the capture loop past its mode test
PastCheck == {"gate", "detect", "stamp", "put"}

\* C29: the capture loop discards hops while paused.  Only the mode test,
\* made under the mutex and finding Playing, takes an iteration past the
\* test; a put ends the iteration; so while the mode stays Paused an
\* iteration that is before its test never gets to a put, and at most the
\* one event of the iteration already past its test is enqueued: after a
\* stop, which empties channel and LiveBuffer, they hold at most one event
\* as long as the mode stays Paused
C29_PausedHopsDiscarded ==
    [][ /\ (cap_pc \notin PastCheck /\ cap_pc' \in PastCheck) => (CapCheckPlaying /\ is_playing)
        /\ (~is_playing /\ cap_pc \notin PastCheck) => cap_pc' \notin PastCheck
        /\ Len(data_queue') > Len(data_queue) => (cap_pc = "put" /\ cap_pc' = "read")
        /\ (lastKey' = "s" /\ ~is_playing') => Len(data_queue') + Len(times') <= 1
      ]_vars

\* paused by a stop, the one event of the iteration that was already past
\* its test has been enqueued, and the next hop is at the mode test
C29_Witness ==
    /\ lastKey = "s"
    /\ ~is_playing
    /\ Len(data_queue) = 1
    /\ cap_pc = "check"

\* the events the channel holds at most in the specification of the commands
MaxQueued == 1

\* The session with the two threads in their loops and the key commands taken
\* statement by statement: a thread enters a `with lock:` block only while
\* the GUI thread does not hold the lock; the blocks of the threads (lines
\* 138-142, 162-164 and 207-211) contain no call that waits and are one step
\* each.  The capture thread is taken without the failure of stream.read,
\* after which it takes no further step
NextCmd ==
    \/ KeyPress
    \/ KeyAcquire
    \/ KeyBody
    \/ KeyEmpty
    \/ KeyGet
    \/ KeyRelease
    \/ CapRead
    \/ (LockFree /\ CapCheckPlaying)
    \/ CapGate
    \/ CapDetect
    \/ (LockFree /\ CapStamp)
    \/ (Len(data_queue) < MaxQueued /\ CapPut)
    \/ (LockFree /\ PlaySeek)
    \/ PlayMode
    \/ PlaySilence
    \/ PlayChunk

\* the GUI thread, once on_key is entered, goes on whenever it has a step
\* (each of these steps changes gui_pc)
SpecCmd == Init /\ [][NextCmd]_vars
             /\ WF_gui_pc(KeyAcquire \/ KeyBody \/ KeyEmpty \/ KeyGet \/ KeyRelease)

\* the positions of on_key inside its with block
InCommand == {"key_body", "key_empty", "key_get", "key_release"}

\* C30: every key command terminates and releases the mutex whatever the
\* capture and playback threads do: the mutex is held exactly inside the
\* with block, the drain loop gets at most the events that were queued when
\* the block was entered plus the one the producer can still put without the
\* mutex, a get is only made on a queue that has an item, and a command that
\* was dispatched comes back to the event loop with the mutex free
C30_CommandsTerminate ==
    /\ [](lock = "gui" <=> gui_pc \in InCommand)
    /\ [](key_gets <= key_len + 1)
    /\ [](gui_pc = "key_get" => data_queue # << >>)
    /\ (gui_pc = "key_lock") ~> (gui_pc = "idle" /\ lock = "free")

\* a seek command has drained the events queued at its start and the one
\* more that the producer put meanwhile; the producer is now at the with
\* block of its next hop, which it cannot enter, and the playback thread at
\* the with block of its next pass
C30_Witness ==
    /\ gui_pc = "key_release"
    /\ gui_key = "left"
    /\ key_len >= 1
    /\ key_gets = key_len + 1
    /\ cap_pc = "check"
    /\ play_pc = "seek"

\* C31: frame conditions of the key commands.  The play/pause toggle, and
\* any step that flips the mode on a ' ' key, leaves the pending seek
\* target, the LiveBuffer and the channel as they were; the two seeks leave
\* the mode as it was; no command changes the track duration, the device
\* latencies or the reference track
C31_CommandFrames ==
    [][ /\ (OnKeySpace \/ (is_playing' # is_playing /\ lastKey' = "space"))
              => UNCHANGED <<seek_to, times, notes, data_queue>>
        /\ (OnKeyLeft \/ OnKeyRight) => UNCHANGED is_playing
        /\ Keys => UNCHANGED <<audio_duration, input_latency, output_latency,
                               audio_times, audio_notes>>
      ]_vars

\* paused by the toggle after a seek whose target is still pending, with an
\* event in the LiveBuffer and one in the channel, all of them kept
C31_Witness ==
    /\ lastKey = "space"
    /\ ~is_playing
    /\ seek_to # None
    /\ times # << >>
    /\ data_queue # << >>

====
